---- MODULE Spec2Model ----
(***************************************************************************)
(* Greedy list scheduler of the production scheduling engine               *)
(* (ProductionScheduler.schedule_tasks and the routines it calls).         *)
(*                                                                         *)
(* Time is counted in whole minutes since 2025-08-22 00:00 (a Friday), the *)
(* day of the scheduler's fixed start_date.  Priorities are the code's     *)
(* float priorities multiplied by 10, so that the retry increment 0.1      *)
(* becomes 1 and every priority is an integer.  Task instance ids are      *)
(* natural numbers whose order stands for the string order the heap uses   *)
(* to break priority ties.  The dependency graph builder                   *)
(* (build_dynamic_dependencies, in both modules that define it) is         *)
(* modelled on registries keyed by the instance id strings of the loaders. *)
(***************************************************************************)
EXTENDS Integers, Sequences, FiniteSets, TLC

\* ---------------------------------------------------------------- bounds
MaxConstraints == 2
MaxHeadcount == 2
MaxElapsedDays == 10
MaxRelationships == 1
MaxCalls == 2
MaxCapacity == 4
MaxQuality == 2
LongDuration == 600
MaxRegistry == 2
SolverLatest == 5
MaxDays == 3
MaxIterations == 12
MaxAnnealing == 2

\* ------------------------------------------------------ program constants
AllocMaxIterations == 5000
MaxRetries == 3
LoopFactor == 10
LatePartDelayDays == 1
StartDate == 360
StartWeekday == 4
MinutesPerDay == 1440
FirstShiftStart == 360
SecondShiftStart == 870
ThirdShiftStart == 1380
NoDeliveryDays == 999
SampleMinutes == 15
ToleranceMinutes == 1
Infinity == 1000000
Unscheduled == 999999
NoLateness == 999
SearchIterations == 20
DefaultMaxMechanics == 30
DefaultMaxQuality == 15
MaxReductions == 50
RefinementIterations == 50
DeliveryDay == 5
ExampleBounds == <<1, 10>>

VARIABLES
    \* inputs held by the scheduler object
    tasks,                  \* self.tasks: id -> task_info
    dynamic_constraints,    \* self._dynamic_constraints_cache (list)
    late_part_tasks,        \* self.late_part_tasks (keys)
    rework_tasks,           \* self.rework_tasks (keys)
    quality_inspections,    \* self.quality_inspections: qi id -> primary task
    on_dock_dates,          \* self.on_dock_dates: late part -> minute
    team_capacity,          \* self.team_capacity
    quality_team_capacity,  \* self.quality_team_capacity
    team_shifts,            \* self.team_shifts: team -> list of shift names
    quality_team_shifts,    \* self.quality_team_shifts
    holidays,               \* self.holidays: product -> set of day numbers
    days_to_delivery,       \* (delivery_date - now).days per product
    silent_mode,            \* argument of schedule_tasks
    constraints_cached,     \* self._dynamic_constraints_cache is not None
    previous_run,           \* <<>> or the outcome of the run before this one
    \* registries read by build_dynamic_dependencies
    implementation,         \* module whose builder the object uses
    product_order,          \* self.delivery_dates.keys(), in order
    precedence_constraints, \* self.precedence_constraints (list)
    late_part_constraints,  \* self.late_part_constraints (list)
    rework_constraints,     \* self.rework_constraints (list)
    task_instance_map,      \* self.task_instance_map: <<product, id>> -> instance
    quality_requirements,   \* self.quality_requirements, in insertion order
    customer_requirements,  \* self.customer_requirements, in insertion order
    returned,               \* what each call of the builder returned
    build_count,            \* lists the builder has constructed so far
    validation_results,     \* <<>> or the report of the validator
    \* state of the capacity searches
    original_team_capacity,     \* self._original_team_capacity
    original_quality_capacity,  \* self._original_quality_capacity
    workload,               \* what a run yields under given capacities
    search,                 \* locals of the running optimization call
    scenario_result,        \* <<>> or what the optimization call returned
    trials,                 \* trials on the object: position and locals
    \* state of one run
    pc,
    task_schedule,          \* self.task_schedule: id -> entry
    ready_tasks,            \* heap of <<priority, id>>
    scheduled_count,
    iteration_count,
    failed_tasks,
    task_retry_counts,
    \* the task being allocated and the allocator's locals
    task_instance_id,
    priority,
    earliest_start,
    current_time,
    iterations

optimizer == <<original_team_capacity, original_quality_capacity, workload,
               search, scenario_result, trials>>

inputs == <<optimizer, dynamic_constraints, late_part_tasks, rework_tasks,
            quality_inspections, on_dock_dates, team_capacity,
            quality_team_capacity, team_shifts, quality_team_shifts,
            holidays, days_to_delivery, silent_mode, constraints_cached,
            previous_run, implementation, product_order,
            precedence_constraints, late_part_constraints,
            rework_constraints, task_instance_map, quality_requirements,
            customer_requirements, returned, build_count,
            validation_results>>

vars == <<tasks, inputs, pc, task_schedule, ready_tasks, scheduled_count,
          iteration_count, failed_tasks, task_retry_counts,
          task_instance_id, priority, earliest_start, current_time,
          iterations>>

\* ---------------------------------------------------------------- helpers
\* No optimization call on the object; the capacities saved by the loader
\* are the loaded ones.
OptimizerIdle ==
    /\ original_team_capacity = team_capacity
    /\ original_quality_capacity = quality_team_capacity
    /\ workload = <<>>
    /\ search = <<>>
    /\ scenario_result = <<>>
    /\ trials = <<>>

Range(s) == {s[i] : i \in 1..Len(s)}

SetMax(S) == CHOOSE x \in S : \A y \in S : y <= x

Max2(a, b) == IF a >= b THEN a ELSE b

all_tasks == DOMAIN tasks

total_tasks == Cardinality(all_tasks)

Scheduled == DOMAIN task_schedule

FinishClass == {"Finish <= Start", "Finish = Start", "Finish <= Finish"}

constraints_by_second(t) ==
    SelectSeq(dynamic_constraints, LAMBDA c : c.Second = t)

constraints_by_first(t) ==
    SelectSeq(dynamic_constraints, LAMBDA c : c.First = t)

\* ------------------------------------------------------------- calendar
DayOf(t) == t \div MinutesPerDay

MinuteOfDay(t) == t % MinutesPerDay

Weekday(t) == (StartWeekday + DayOf(t)) % 7

AtSix(day) == day * MinutesPerDay + FirstShiftStart

HolidaysOf(product) ==
    IF product \in DOMAIN holidays THEN holidays[product] ELSE {}

\* Fault injection: is_working_day without the holiday lookup.
is_working_day_NoHolidays(date, product_line) ==
    Weekday(date) < 5

is_working_day(date, product_line) ==
    /\ Weekday(date) < 5
    /\ DayOf(date) \notin HolidaysOf(product_line)

InShift(shift, current_minutes) ==
    \/ shift = "1st" /\ FirstShiftStart <= current_minutes
                     /\ current_minutes < SecondShiftStart
    \/ shift = "2nd" /\ SecondShiftStart <= current_minutes
                     /\ current_minutes < ThirdShiftStart
    \/ shift = "3rd" /\ (current_minutes >= ThirdShiftStart
                         \/ current_minutes < FirstShiftStart)

ShiftsOf(team, is_quality) ==
    IF is_quality
    THEN IF team \in DOMAIN quality_team_shifts
         THEN quality_team_shifts[team] ELSE <<>>
    ELSE IF team \in DOMAIN team_shifts THEN team_shifts[team] ELSE <<>>

\* The first shift of the team's list that contains the minute ("" if none).
available_shift(team, is_quality, current_minutes) ==
    LET shifts == ShiftsOf(team, is_quality)
        hits == {i \in 1..Len(shifts) : InShift(shifts[i], current_minutes)}
    IN IF hits = {} THEN ""
       ELSE shifts[CHOOSE i \in hits : \A j \in hits : i <= j]

\* Where the allocator jumps to when no shift of the team holds the minute.
NextShiftBoundary(t) ==
    LET m == MinuteOfDay(t)
        d == DayOf(t)
    IN IF m < FirstShiftStart THEN d * MinutesPerDay + FirstShiftStart
       ELSE IF m < SecondShiftStart THEN d * MinutesPerDay + SecondShiftStart
       ELSE IF m < ThirdShiftStart THEN d * MinutesPerDay + ThirdShiftStart
       ELSE AtSix(d + 1)

\* ------------------------------------------------------------- capacity
CapacityOf(team) ==
    LET c == IF team \in DOMAIN team_capacity THEN team_capacity[team] ELSE 0
    IN IF c # 0 THEN c
       ELSE IF team \in DOMAIN quality_team_capacity
            THEN quality_team_capacity[team] ELSE 0

RECURSIVE SumHeadcount(_, _)
SumHeadcount(sched, S) ==
    IF S = {} THEN 0
    ELSE LET t == CHOOSE x \in S : TRUE
         IN sched[t].mechanics_required + SumHeadcount(sched, S \ {t})

UsageAt(sched, team, minute) ==
    SumHeadcount(sched, {t \in DOMAIN sched :
                            /\ sched[t].team = team
                            /\ sched[t].start_time <= minute
                            /\ minute < sched[t].end_time})

\* Fault injection: check_team_capacity_at_time without the request's own
\* headcount.
check_team_capacity_NoDemand(team, start_time, end_time, mechanics_needed) ==
    {current \in start_time..(end_time - 1) :
        UsageAt(task_schedule, team, current) > CapacityOf(team)} = {}

check_team_capacity_at_time(team, start_time, end_time, mechanics_needed) ==
    {current \in start_time..(end_time - 1) :
        UsageAt(task_schedule, team, current) + mechanics_needed
            > CapacityOf(team)} = {}

\* --------------------------------------------------- priority, critical path
Successors(task) ==
    {c.Second : c \in {x \in Range(dynamic_constraints) : x.First = task}}
        \cap all_tasks

\* get_path_length of calculate_critical_path_length.  The code recurses
\* over successors with no cycle check; a path longer than the number of
\* tasks walks a cycle, where the interpreter ends the unbounded recursion
\* with RecursionError (raised = TRUE).
RECURSIVE get_path_length(_, _)
get_path_length(task, depth) ==
    IF depth > total_tasks
    THEN [raised |-> TRUE, length |-> 0]
    ELSE LET paths == {get_path_length(s, depth + 1) : s \in Successors(task)}
         IN IF \E p \in paths : p.raised
            THEN [raised |-> TRUE, length |-> 0]
            ELSE [raised |-> FALSE,
                  length |-> tasks[task].duration
                             + SetMax({p.length : p \in paths} \cup {0})]

calculate_critical_path_length(task) == get_path_length(task, 1)

DaysToDelivery(product) ==
    IF product \in DOMAIN days_to_delivery
    THEN days_to_delivery[product] ELSE NoDeliveryDays

IsScored(task) ==
    /\ task \notin late_part_tasks
    /\ task \notin DOMAIN quality_inspections
    /\ task \notin rework_tasks

\* calculate_task_priority, times 10.
calculate_task_priority(task) ==
    IF task \in late_part_tasks THEN -30000
    ELSE IF task \in DOMAIN quality_inspections THEN -20000
    ELSE IF task \in rework_tasks THEN -10000
    ELSE (100 - DaysToDelivery(tasks[task].product)) * 200
         + (10000 - calculate_critical_path_length(task).length) * 50
         + (1000 - tasks[task].duration) * 2

\* The priority computation raises exactly when it needs the critical path
\* of a task from which a constraint cycle is reachable.
PriorityRaises(task) ==
    IsScored(task) /\ calculate_critical_path_length(task).raised

\* ---------------------------------------------------------- validate_dag
DagEdges ==
    {<<c.First, c.Second>> :
        c \in {x \in Range(dynamic_constraints) :
                  x.Relationship \in {"Finish <= Start", "Finish = Start"}}}

RECURSIVE ReachableIn(_, _, _)
ReachableIn(edges, from, n) ==
    IF n = 0 THEN from
    ELSE ReachableIn(edges,
                     from \cup {e[2] : e \in {x \in edges : x[1] \in from}},
                     n - 1)

HasCycle(edges) ==
    \E e \in edges :
        e[1] \in ReachableIn(edges, {e[2]}, Cardinality(edges))

validate_dag ==
    /\ \A c \in Range(dynamic_constraints) :
           c.First \in all_tasks /\ c.Second \in all_tasks
    /\ ~HasCycle(DagEdges)

\* ------------------------------------------------------- earliest start
get_earliest_start_for_late_part(task) ==
    IF task \notin DOMAIN on_dock_dates THEN StartDate
    ELSE AtSix(DayOf(on_dock_dates[task]
                     + LatePartDelayDays * MinutesPerDay))

constraint_time(c, duration) ==
    LET first_schedule == task_schedule[c.First]
        relationship == c.Relationship
    IN IF relationship = "Finish <= Start" THEN first_schedule.end_time
       ELSE IF relationship = "Finish = Start" THEN first_schedule.end_time
       ELSE IF relationship \in {"Start <= Start", "Start = Start"}
            THEN first_schedule.start_time
       ELSE IF relationship = "Finish <= Finish"
            THEN first_schedule.end_time - duration
       ELSE IF relationship = "Start <= Finish"
            THEN first_schedule.start_time - duration
       ELSE first_schedule.end_time

RECURSIVE MaxConstraintTime(_, _, _)
MaxConstraintTime(cs, duration, acc) ==
    IF cs = <<>> THEN acc
    ELSE MaxConstraintTime(Tail(cs), duration,
                           Max2(acc, constraint_time(Head(cs), duration)))

\* Fault injection: the pin of a Start = Start predecessor is one bound
\* among the others instead of replacing them.
EarliestStart_PinAsBound(task) ==
    LET duration == tasks[task].duration
        floor == IF task \in late_part_tasks
                 THEN get_earliest_start_for_late_part(task)
                 ELSE StartDate
        cs == SelectSeq(constraints_by_second(task),
                        LAMBDA c : c.First \in Scheduled)
    IN MaxConstraintTime(cs, duration, floor)

\* Lines 1134-1166 of schedule_tasks: the lower bound handed to the
\* allocator.  A scheduled Start = Start predecessor replaces the maximum
\* by its own start (the last such predecessor in list order wins).
EarliestStart(task) ==
    LET duration == tasks[task].duration
        floor == IF task \in late_part_tasks
                 THEN get_earliest_start_for_late_part(task)
                 ELSE StartDate
        cs == SelectSeq(constraints_by_second(task),
                        LAMBDA c : c.First \in Scheduled)
        pins == SelectSeq(cs, LAMBDA c : c.Relationship = "Start = Start")
    IN IF pins # <<>>
       THEN task_schedule[pins[Len(pins)].First].start_time
       ELSE MaxConstraintTime(cs, duration, floor)

\* ------------------------------------------------------------ ready heap
HeapMin(heap) ==
    CHOOSE e \in heap :
        \A f \in heap : e[1] < f[1] \/ (e[1] = f[1] /\ e[2] <= f[2])

InHeap(heap) == {e[2] : e \in heap}

\* Fault injection: has_blocking_constraints without Finish <= Finish.
has_blocking_constraints_NoFinishFinish(task) ==
    \E c \in Range(constraints_by_second(task)) :
        c.Relationship \in {"Finish <= Start", "Finish = Start"}

has_blocking_constraints(task) ==
    \E c \in Range(constraints_by_second(task)) :
        c.Relationship \in FinishClass

InitiallyReady ==
    LET incoming == {c.Second : c \in Range(dynamic_constraints)}
        outgoing == {c.First : c \in Range(dynamic_constraints)}
    IN ((all_tasks \ incoming) \ outgoing)
       \cup (outgoing \ incoming)
       \cup {t \in incoming : ~has_blocking_constraints(t)}

\* ------------------------------------------------------------ team lookup
TeamNumber(team) ==
    IF team \in {"Mechanic Team 1", "Quality Team 1"} THEN 1
    ELSE IF team \in {"Mechanic Team 2", "Quality Team 2"} THEN 2
    ELSE 0

\* Fault injection: the mapping does not verify that the quality team exists.
map_mechanic_to_quality_team_Unverified(mechanic_team) ==
    IF TeamNumber(mechanic_team) = 1 THEN "Quality Team 1"
    ELSE IF TeamNumber(mechanic_team) = 2 THEN "Quality Team 2"
    ELSE ""

map_mechanic_to_quality_team(mechanic_team) ==
    LET quality_team ==
            IF TeamNumber(mechanic_team) = 1 THEN "Quality Team 1"
            ELSE IF TeamNumber(mechanic_team) = 2 THEN "Quality Team 2"
            ELSE ""
    IN IF mechanic_team # "" /\ quality_team \in DOMAIN quality_team_capacity
       THEN quality_team ELSE ""

\* The team of a task at allocation time (lines 1168-1197): a quality task
\* without a team takes the quality team mapped from its primary task.
ResolveTeam(task) ==
    IF tasks[task].is_quality /\ tasks[task].team = ""
    THEN IF /\ task \in DOMAIN quality_inspections
            /\ quality_inspections[task] \in all_tasks
         THEN map_mechanic_to_quality_team(
                  tasks[quality_inspections[task]].team)
         ELSE ""
    ELSE tasks[task].team

\* ------------------------------------------------------------------ run
LoopCondition ==
    /\ ready_tasks # {}
    /\ scheduled_count < total_tasks
    /\ iteration_count < total_tasks * LoopFactor

\* Start of schedule_tasks up to the main loop: the schedule is emptied,
\* the graph validated unless silent, the initial ready heap built.
Start ==
    /\ pc = "start"
    /\ task_schedule' = [t \in {} |-> 0]
    /\ IF ~silent_mode /\ ~validate_dag
       THEN /\ pc' = "aborted"
            /\ ready_tasks' = {}
       ELSE IF \E t \in InitiallyReady : PriorityRaises(t)
       THEN /\ pc' = "crashed"
            /\ ready_tasks' = {}
       ELSE /\ pc' = "loop"
            /\ ready_tasks' =
                   {<<calculate_task_priority(t), t>> : t \in InitiallyReady}
    /\ scheduled_count' = 0
    /\ iteration_count' = 0
    /\ failed_tasks' = {}
    /\ task_retry_counts' = [t \in all_tasks |-> 0]
    /\ UNCHANGED <<tasks, inputs, task_instance_id, priority, earliest_start,
                   current_time, iterations>>

\* One pass of the main loop from the pop to the call of the allocator.
Pop ==
    /\ pc = "loop"
    /\ LoopCondition
    /\ LET e == HeapMin(ready_tasks)
           rest == ready_tasks \ {e}
           t == e[2]
           team == ResolveTeam(t)
       IN /\ iteration_count' = iteration_count + 1
          /\ IF task_retry_counts[t] >= MaxRetries
             THEN /\ failed_tasks' = failed_tasks \cup {t}
                  /\ ready_tasks' = rest
                  /\ pc' = "loop"
                  /\ UNCHANGED <<tasks, task_retry_counts, task_instance_id,
                                 priority, earliest_start, current_time,
                                 iterations>>
             ELSE IF tasks[t].is_quality /\ team = ""
             THEN /\ task_retry_counts' =
                         [task_retry_counts EXCEPT ![t] = @ + 1]
                  /\ ready_tasks' =
                         IF task_retry_counts[t] + 1 < MaxRetries
                         THEN rest \cup {<<e[1] + 1, t>>} ELSE rest
                  /\ pc' = "loop"
                  /\ UNCHANGED <<tasks, failed_tasks, task_instance_id,
                                 priority, earliest_start, current_time,
                                 iterations>>
             ELSE /\ tasks' = [tasks EXCEPT ![t].team = team]
                  /\ ready_tasks' = rest
                  /\ task_instance_id' = t
                  /\ priority' = e[1]
                  /\ earliest_start' = EarliestStart(t)
                  /\ current_time' = EarliestStart(t)
                  /\ iterations' = 0
                  /\ pc' = "alloc"
                  /\ UNCHANGED <<failed_tasks, task_retry_counts>>
    /\ UNCHANGED <<inputs, task_schedule, scheduled_count>>

\* Fault injection: the except clause re-queues once more than the bound.
Except_OneMoreRetry(heap) ==
    /\ task_retry_counts' =
           [task_retry_counts EXCEPT ![task_instance_id] = @ + 1]
    /\ IF task_retry_counts[task_instance_id] + 1 <= MaxRetries
       THEN /\ ready_tasks' = heap \cup {<<priority + 1, task_instance_id>>}
            /\ failed_tasks' = failed_tasks
       ELSE /\ ready_tasks' = heap
            /\ failed_tasks' = failed_tasks \cup {task_instance_id}

\* The except clause of the main loop for the task being allocated.
Except(heap) ==
    /\ task_retry_counts' =
           [task_retry_counts EXCEPT ![task_instance_id] = @ + 1]
    /\ IF task_retry_counts[task_instance_id] + 1 < MaxRetries
       THEN /\ ready_tasks' = heap \cup {<<priority + 1, task_instance_id>>}
            /\ failed_tasks' = failed_tasks
       ELSE /\ ready_tasks' = heap
            /\ failed_tasks' = failed_tasks \cup {task_instance_id}

Feasible(time) ==
    LET info == tasks[task_instance_id]
    IN /\ is_working_day(time, info.product)
       /\ available_shift(info.team, info.is_quality, MinuteOfDay(time)) # ""
       /\ check_team_capacity_at_time(info.team, time, time + info.duration,
                                      info.mechanics_required)

\* One iteration of get_next_working_time_with_capacity that does not return.
AllocStep ==
    /\ pc = "alloc"
    /\ iterations < AllocMaxIterations
    /\ ~Feasible(current_time)
    /\ LET info == tasks[task_instance_id]
       IN current_time' =
              IF ~is_working_day(current_time, info.product)
              THEN AtSix(DayOf(current_time) + 1)
              ELSE IF available_shift(info.team, info.is_quality,
                                      MinuteOfDay(current_time)) # ""
              THEN current_time + 1
              ELSE NextShiftBoundary(current_time)
    /\ iterations' = iterations + 1
    /\ UNCHANGED <<tasks, inputs, pc, task_schedule, ready_tasks,
                   scheduled_count, iteration_count, failed_tasks,
                   task_retry_counts, task_instance_id, priority,
                   earliest_start>>

\* Fault injection: the entry's end computed from the requested earliest
\* start instead of the start the allocator returned.
ScheduleEntry_EndFromEarliest(info, scheduled_start, shift) ==
    [start_time |-> scheduled_start,
     end_time |-> earliest_start + info.duration,
     team |-> info.team,
     product |-> info.product,
     duration |-> info.duration,
     mechanics_required |-> info.mechanics_required,
     is_quality |-> info.is_quality,
     task_type |-> info.task_type,
     shift |-> shift]

\* The entry recorded for a task placed at scheduled_start (lines 1199-1212).
ScheduleEntry(info, scheduled_start, shift) ==
    [start_time |-> scheduled_start,
     end_time |-> scheduled_start + info.duration,
     team |-> info.team,
     product |-> info.product,
     duration |-> info.duration,
     mechanics_required |-> info.mechanics_required,
     is_quality |-> info.is_quality,
     task_type |-> info.task_type,
     shift |-> shift]

\* The dependents of the placed task are pushed in constraint-list order;
\* the priority computation of one of them may raise.
RECURSIVE PushDependents(_, _, _)
PushDependents(cs, sched, heap) ==
    IF cs = <<>> THEN [heap |-> heap, raised |-> FALSE]
    ELSE LET dependent == Head(cs).Second
             all_satisfied ==
                 \A c \in Range(constraints_by_second(dependent)) :
                     c.First \in DOMAIN sched
         IN IF \/ dependent \in DOMAIN sched
               \/ dependent \in failed_tasks
               \/ ~all_satisfied
               \/ dependent \in InHeap(heap)
            THEN PushDependents(Tail(cs), sched, heap)
            ELSE IF PriorityRaises(dependent)
            THEN [heap |-> heap, raised |-> TRUE]
            ELSE PushDependents(Tail(cs), sched,
                     heap \cup {<<calculate_task_priority(dependent),
                                  dependent>>})

\* The iteration of the allocator that returns, and the rest of the loop
\* body: the entry is recorded and the dependents are pushed.
AllocPlace ==
    /\ pc = "alloc"
    /\ iterations < AllocMaxIterations
    /\ Feasible(current_time)
    /\ LET info == tasks[task_instance_id]
           entry == ScheduleEntry(info, current_time,
                                  available_shift(info.team, info.is_quality,
                                                  MinuteOfDay(current_time)))
           sched == [t \in Scheduled \cup {task_instance_id} |->
                        IF t = task_instance_id THEN entry
                        ELSE task_schedule[t]]
           pushed == PushDependents(constraints_by_first(task_instance_id),
                                    sched, ready_tasks)
       IN /\ task_schedule' = sched
          /\ scheduled_count' = scheduled_count + 1
          /\ IF pushed.raised
             THEN Except(pushed.heap)
             ELSE /\ ready_tasks' = pushed.heap
                  /\ UNCHANGED <<failed_tasks, task_retry_counts>>
    /\ iterations' = iterations + 1
    /\ pc' = "loop"
    /\ UNCHANGED <<tasks, inputs, iteration_count, task_instance_id,
                   priority, earliest_start, current_time>>

\* The allocator gives up after its iteration bound and raises.
AllocRaise ==
    /\ pc = "alloc"
    /\ iterations >= AllocMaxIterations
    /\ Except(ready_tasks)
    /\ pc' = "loop"
    /\ UNCHANGED <<tasks, inputs, task_schedule, scheduled_count,
                   iteration_count, task_instance_id, priority,
                   earliest_start, current_time, iterations>>

LoopExit ==
    /\ pc = "loop"
    /\ ~LoopCondition
    /\ pc' = "done"
    /\ UNCHANGED <<tasks, inputs, task_schedule, ready_tasks,
                   scheduled_count, iteration_count, failed_tasks,
                   task_retry_counts, task_instance_id, priority,
                   earliest_start, current_time, iterations>>

Next == Start \/ Pop \/ AllocStep \/ AllocPlace \/ AllocRaise \/ LoopExit

\* ---------------------------------------------------------------- inputs
Kinds == {"Finish <= Start", "Finish = Start", "Finish <= Finish",
          "Start <= Start", "Start = Start", "Start <= Finish"}

Task(duration, team, mechanics_required, is_quality, task_type, product) ==
    [duration |-> duration, team |-> team,
     mechanics_required |-> mechanics_required, is_quality |-> is_quality,
     task_type |-> task_type, product |-> product]

Constraint(first, second, relationship) ==
    [First |-> first, Second |-> second, Relationship |-> relationship]

ConstraintLists(edges) ==
    UNION {[1..n -> edges] : n \in 0..MaxConstraints}

Config(t, cons, late, rework, qi, dock, cap, hol, silent) ==
    [tasks |-> t, cons |-> cons, late |-> late, rework |-> rework,
     qi |-> qi, dock |-> dock, cap |-> cap, hol |-> hol, silent |-> silent]

NoMap == [x \in {} |-> 0]

Caps(c) == [team \in {"Mechanic Team 1", "Mechanic Team 2"} |-> c]

\* Three production tasks of one product under every short constraint list
\* of every kind, on one team or spread over two teams with disjoint shifts.
PrecedenceConfigs ==
    LET edges == {Constraint(i, j, k) : i \in 1..3, j \in 1..3, k \in Kinds}
        usable == {c \in edges : c.First < c.Second
                                 \/ (c.First = 2 /\ c.Second = 1)}
        teamsOf(spread) ==
            [t \in 1..3 |->
                IF spread /\ t % 2 = 0 THEN "Mechanic Team 2"
                ELSE "Mechanic Team 1"]
    IN {Config([t \in 1..3 |->
                   Task(3, teamsOf(spread)[t], 1, FALSE, "Production", "A")],
               cons, {}, {}, NoMap, NoMap, Caps(1), {}, TRUE) :
           cons \in ConstraintLists(usable), spread \in BOOLEAN}

\* Three tasks of one team under every headcount and capacity; the first
\* task may take no time at all, and the third may have to follow it.
CapacityConfigs ==
    {Config([t \in 1..3 |->
                Task(IF t = 1 THEN d ELSE 3, "Mechanic Team 1",
                     IF t = 1 THEN m1 ELSE IF t = 2 THEN m2 ELSE 1,
                     FALSE, "Production", "A")],
            cons, {}, {}, NoMap, NoMap, Caps(c), {}, TRUE) :
        d \in {0, 3}, m1 \in 1..MaxHeadcount, m2 \in 1..MaxHeadcount,
        c \in 1..MaxHeadcount,
        cons \in {<<>>, <<Constraint(1, 3, "Finish <= Start")>>}}

\* Two late parts and a production task: on-dock dates before a weekend
\* or a holiday, and a constraint of any kind between the late parts.
LatePartConfigs ==
    LET docks == {NoMap, [x \in {1} |-> 0], [x \in {2} |-> 0],
                  [x \in {1, 2} |-> IF x = 1 THEN 0 ELSE 4320],
                  [x \in {1, 2} |-> IF x = 1 THEN 4320 ELSE 0]}
        edges == {Constraint(1, 2, k) : k \in Kinds}
                     \cup {Constraint(2, 1, k) : k \in Kinds}
                     \cup {Constraint(2, 3, "Finish <= Start")}
    IN {Config([t \in 1..3 |->
                   IF t = 3
                   THEN Task(3, "Mechanic Team 1", 1, FALSE,
                             "Production", "A")
                   ELSE Task(3, "Mechanic Team 1", 1, FALSE,
                             "Late Part", "A")],
               cons, {1, 2}, {}, NoMap, dock, Caps(2), hol, TRUE) :
           cons \in {<<>>} \cup {<<e>> : e \in edges}, dock \in docks,
           hol \in {{}, {3}}}

\* A primary task and its quality inspection, whose team is set, is
\* recovered from the primary task's team, or cannot be recovered.
QualityConfigs ==
    {Config([t \in 1..2 |->
                IF t = 1
                THEN Task(3, pteam, 1, FALSE, "Production", "A")
                ELSE Task(2, qteam, 1, TRUE, "Quality Inspection", "A")],
            <<Constraint(1, 2, "Finish = Start")>>, {}, {}, [x \in {2} |-> 1],
            NoMap, Caps(1), {}, silent) :
        pteam \in {"Mechanic Team 1", "Mechanic Team 2"},
        qteam \in {"Quality Team 1", ""}, silent \in BOOLEAN}

\* Constraint cycles, validated or run in silent mode: two tasks that
\* constrain each other beside a free third task; and two late parts, each
\* before a production task, both production tasks before a task that is
\* constrained by itself.
CycleConfigs ==
    {Config([t \in 1..3 |->
                Task(3, "Mechanic Team 1", 1, FALSE, "Production", "A")],
            <<Constraint(1, 2, k1), Constraint(2, 1, k2)>>,
            {}, {}, NoMap, NoMap, Caps(1), {}, silent) :
        k1 \in Kinds, k2 \in Kinds, silent \in BOOLEAN}
    \cup
    {Config([t \in 1..5 |->
                Task(3, "Mechanic Team 1", 1, FALSE,
                     IF t <= 2 THEN "Late Part" ELSE "Production", "A")],
            <<Constraint(1, 3, "Finish <= Start"),
              Constraint(2, 4, "Finish <= Start"),
              Constraint(3, 5, "Finish <= Start"),
              Constraint(4, 5, "Finish <= Start"),
              Constraint(5, 5, k)>>,
            {1, 2}, {}, NoMap, NoMap, Caps(2), {}, silent) :
        k \in {"Start <= Start", "Finish <= Finish"}, silent \in BOOLEAN}

\* A late part, a rework task and a production task of a product with a
\* near, a far or no delivery date, short or with days of work ahead of it.
PriorityConfigs ==
    {Config([t \in 1..3 |->
                IF t = 1
                THEN Task(3, "Mechanic Team 1", 1, FALSE, "Late Part", "A")
                ELSE IF t = 2
                THEN Task(3, "Mechanic Team 1", 1, FALSE, "Rework", "A")
                ELSE Task(d, "Mechanic Team 1", 1, FALSE, "Production",
                          product)],
            <<>>, {1}, {2}, NoMap, NoMap, Caps(2), {}, TRUE) :
        d \in {3, 7100}, product \in {"A", "B", "C"}}

\* A primary task, its inspection that arrives without a team, registered
\* with its primary task or not, and a production task that waits behind
\* the inspection in the ready queue.
RecoveryConfigs ==
    {Config([t \in 1..3 |->
                IF t = 1
                THEN Task(3, pteam, 1, FALSE, "Production", "A")
                ELSE IF t = 2
                THEN Task(2, "", 1, TRUE, "Quality Inspection", "A")
                ELSE Task(3, "Mechanic Team 1", 1, FALSE, "Production", "A")],
            <<Constraint(1, 2, "Finish = Start")>>, {}, {}, qi,
            NoMap, Caps(1), {}, silent) :
        pteam \in {"Mechanic Team 1", "Mechanic Team 2"},
        qi \in {[x \in {2} |-> 1], NoMap}, silent \in BOOLEAN}

Configs ==
    PrecedenceConfigs \cup CapacityConfigs \cup LatePartConfigs
        \cup QualityConfigs \cup CycleConfigs \cup PriorityConfigs
        \cup RecoveryConfigs

InitWith(configs) ==
    /\ \E cfg \in configs :
          /\ tasks = cfg.tasks
          /\ dynamic_constraints = cfg.cons
          /\ late_part_tasks = cfg.late
          /\ rework_tasks = cfg.rework
          /\ quality_inspections = cfg.qi
          /\ on_dock_dates = cfg.dock
          /\ team_capacity = cfg.cap
          /\ holidays = [p \in {"A"} |-> cfg.hol]
          /\ silent_mode = cfg.silent
    /\ quality_team_capacity = [team \in {"Quality Team 1"} |-> 1]
    /\ team_shifts = [team \in {"Mechanic Team 1", "Mechanic Team 2"} |->
                         IF team = "Mechanic Team 1" THEN <<"1st">>
                         ELSE <<"2nd", "3rd">>]
    /\ quality_team_shifts = [team \in {"Quality Team 1"} |-> <<"2nd", "1st">>]
    /\ days_to_delivery = [p \in {"A", "C"} |-> IF p = "A" THEN 30 ELSE 820]
    /\ constraints_cached = TRUE
    /\ previous_run = <<>>
    /\ implementation = "BACKUP_scheduler"
    /\ product_order = <<>>
    /\ precedence_constraints = <<>>
    /\ late_part_constraints = <<>>
    /\ rework_constraints = <<>>
    /\ task_instance_map = [x \in {} |-> 0]
    /\ quality_requirements = <<>>
    /\ customer_requirements = <<>>
    /\ returned = <<>>
    /\ build_count = 0
    /\ validation_results = <<>>
    /\ OptimizerIdle
    /\ pc = "start"
    /\ task_schedule = [t \in {} |-> 0]
    /\ ready_tasks = {}
    /\ scheduled_count = 0
    /\ iteration_count = 0
    /\ failed_tasks = {}
    /\ task_retry_counts = [t \in all_tasks |-> 0]
    /\ task_instance_id = 0
    /\ priority = 0
    /\ earliest_start = StartDate
    /\ current_time = StartDate
    /\ iterations = 0

Init == InitWith(Configs)

Spec == Init /\ [][Next]_vars

FairSpec == Spec /\ WF_vars(Next)

\* ------------------------------------------------------- a linear chain
\* One product whose baseline tasks 1 -> 2 -> 3 form a Finish <= Start
\* chain, one of them inspected.  The inspection (task 4) is created as
\* load_data_from_csv creates it (lines 396-432): its team is the quality
\* team mapped from the team of its primary task, none when that quality
\* team is not in the capacity table.  The constraints are the ones
\* build_dynamic_dependencies emits for the chain (lines 815-840 and the
\* quality step): the inspection is spliced in behind its primary task.
\* Every mechanic team has a shift and a capacity of at least the largest
\* headcount asked of it; the first task may run into the night.
ChainConstraints(inspected) ==
    IF inspected = 1
    THEN <<Constraint(1, 4, "Finish = Start"),
           Constraint(4, 2, "Finish <= Start"),
           Constraint(2, 3, "Finish <= Start")>>
    ELSE IF inspected = 2
    THEN <<Constraint(1, 2, "Finish <= Start"),
           Constraint(2, 4, "Finish = Start"),
           Constraint(4, 3, "Finish <= Start")>>
    ELSE <<Constraint(1, 2, "Finish <= Start"),
           Constraint(2, 3, "Finish <= Start"),
           Constraint(3, 4, "Finish = Start")>>

ChainConfigs ==
    {Config([t \in 1..4 |->
                IF t = 4
                THEN Task(2, IF teams[inspected] = "Mechanic Team 1"
                             THEN "Quality Team 1" ELSE "",
                          1, TRUE, "Quality Inspection", "A")
                ELSE Task(IF t = 1 THEN d ELSE 3, teams[t], mc[1], FALSE,
                          "Production", "A")],
            ChainConstraints(inspected), {}, {}, [x \in {4} |-> inspected],
            NoMap, Caps(mc[2]), hol, TRUE) :
        inspected \in 1..3,
        teams \in [1..3 -> {"Mechanic Team 1", "Mechanic Team 2"}],
        d \in {3, LongDuration},
        mc \in {x \in (1..MaxHeadcount) \X (1..MaxHeadcount) : x[1] <= x[2]},
        hol \in {{}, {3}}}

\* The same chain on a team that is one mechanic short of its tasks.
UnderstaffedChain ==
    Config([t \in 1..4 |->
               IF t = 4
               THEN Task(2, "Quality Team 1", 1, TRUE,
                         "Quality Inspection", "A")
               ELSE Task(3, "Mechanic Team 1", MaxHeadcount, FALSE,
                         "Production", "A")],
           ChainConstraints(1), {}, {}, [x \in {4} |-> 1],
           NoMap, Caps(MaxHeadcount - 1), {}, TRUE)

ChainInit == InitWith(ChainConfigs \cup {UnderstaffedChain})

ChainSpec == ChainInit /\ [][Next]_vars

\* -------------------------------------------------------- repeated runs
\* A caller runs the scheduler again on the same object, as the capacity
\* search of scenario_2_minimize_makespan does: it may first set every
\* mechanic team to a trial capacity; days may have passed since the run
\* before.  Nothing here or in schedule_tasks resets the constraint cache.
Rerun ==
    /\ pc \in {"done", "crashed", "aborted"}
    /\ previous_run = <<>>
    /\ previous_run' = <<[schedule |-> task_schedule,
                          team_capacity |-> team_capacity,
                          ended |-> pc]>>
    /\ \/ UNCHANGED team_capacity
       \/ \E mech_mid \in 1..MaxHeadcount :
              team_capacity' = [team \in DOMAIN team_capacity |-> mech_mid]
    /\ \E elapsed \in {0, MaxElapsedDays} :
           days_to_delivery' =
               [p \in DOMAIN days_to_delivery |->
                   days_to_delivery[p] - elapsed]
    /\ pc' = "start"
    /\ UNCHANGED <<tasks, dynamic_constraints, late_part_tasks, rework_tasks,
                   quality_inspections, on_dock_dates, quality_team_capacity,
                   team_shifts, quality_team_shifts, holidays, silent_mode, validation_results, optimizer,
                   constraints_cached, task_schedule, ready_tasks,
                   scheduled_count, iteration_count, failed_tasks,
                   task_retry_counts, task_instance_id, priority,
                   earliest_start, current_time, iterations,
                   implementation, product_order, precedence_constraints,
                   late_part_constraints, rework_constraints,
                   task_instance_map, quality_requirements,
                   customer_requirements, returned, build_count>>

RerunNext == Next \/ Rerun

\* Inputs of the repeated runs: the priority and inspection families, the
\* cyclic ones, and three unconstrained tasks on a team that starts at the
\* largest capacity.
RerunConfigs ==
    PriorityConfigs \cup QualityConfigs \cup CycleConfigs
        \cup {cfg \in CapacityConfigs :
                  /\ cfg.cons = <<>>
                  /\ cfg.tasks[1].duration = 3
                  /\ cfg.tasks[1].mechanics_required = 1
                  /\ cfg.cap["Mechanic Team 1"] = MaxHeadcount}

RerunInit == InitWith(RerunConfigs)

RerunSpec == RerunInit /\ [][RerunNext]_vars

\* ------------------------------------------------- relationship spellings
\* A value found under a relationship key: a string, written as its text
\* between its leading and its trailing blanks, or the float NaN that
\* DataFrame.to_dict leaves for a blank cell of the relationship column.
Str(lead, text, trail) ==
    [type |-> "str", lead |-> lead, text |-> text, trail |-> trail]

NaN == [type |-> "float"]

Truthy(value) ==
    value.type = "float" \/ (value.lead \o value.text \o value.trail) # ""

strip(value) == value.text

mappings ==
    ("FS" :> "Finish <= Start") @@ ("Finish-Start" :> "Finish <= Start")
        @@ ("F-S" :> "Finish <= Start") @@ ("F=S" :> "Finish = Start")
        @@ ("Finish=Start" :> "Finish = Start")
        @@ ("FF" :> "Finish <= Finish")
        @@ ("Finish-Finish" :> "Finish <= Finish")
        @@ ("F-F" :> "Finish <= Finish") @@ ("SS" :> "Start <= Start")
        @@ ("Start-Start" :> "Start <= Start")
        @@ ("S-S" :> "Start <= Start") @@ ("S=S" :> "Start = Start")
        @@ ("Start=Start" :> "Start = Start")
        @@ ("SF" :> "Start <= Finish")
        @@ ("Start-Finish" :> "Start <= Finish")
        @@ ("S-F" :> "Start <= Finish")

\* self._normalize_relationship_type: the value returned, or the
\* AttributeError of calling strip on a value that is not a string.
normalize_relationship_type(relationship) ==
    IF ~Truthy(relationship)
    THEN [raised |-> FALSE, value |-> "Finish <= Start"]
    ELSE IF relationship.type # "str"
    THEN [raised |-> TRUE, value |-> "AttributeError"]
    ELSE [raised |-> FALSE,
          value |-> IF strip(relationship) \in DOMAIN mappings
                    THEN mappings[strip(relationship)]
                    ELSE strip(relationship)]

\* utils.normalize_relationship_type, which the constraints module calls:
\* every spelling goes to one of the six kinds, an unrecognized one to
\* Finish <= Start, and nothing raises.
utils_normalize_relationship_type(relationship) ==
    IF relationship.type = "str" /\ strip(relationship) \in DOMAIN mappings
    THEN [raised |-> FALSE, value |-> mappings[strip(relationship)]]
    ELSE IF relationship.type = "str" /\ strip(relationship) \in Kinds
    THEN [raised |-> FALSE, value |-> strip(relationship)]
    ELSE [raised |-> FALSE, value |-> "Finish <= Start"]

\* ------------------------------------------------ dependency graph builder
RECURSIVE ConcatAll(_)
ConcatAll(lists) ==
    IF lists = <<>> THEN <<>> ELSE Head(lists) \o ConcatAll(Tail(lists))

\* create_task_instance_id
create_task_instance_id(product, task_id, task_type) ==
    IF task_type = "baseline"
    THEN product \o "_" \o ToString(task_id)
    ELSE task_type \o "_" \o ToString(task_id)

\* dict.get with the default None, which is "" here: no instance id is empty
Get(map, key) == IF key \in DOMAIN map THEN map[key] ELSE ""

\* the keys of a requirements dict and the value under one of them
Keys(requirements) == {requirements[i][1] : i \in 1..Len(requirements)}

Lookup(requirements, key) ==
    requirements[CHOOSE i \in 1..Len(requirements) :
                     requirements[i][1] = key][2]

Link(first, second, relationship, product) ==
    [First |-> first, Second |-> second, Relationship |-> relationship,
     Product |-> product]

TypedLink(first, second, relationship, type, product) ==
    [First |-> first, Second |-> second, Relationship |-> relationship,
     Type |-> type, Product |-> product]

\* constraint.get('Relationship Type') or
\* constraint.get('Relationship', 'Finish <= Start')
RelationshipOf(constraint) ==
    IF Truthy(constraint.Relationship_Type)
    THEN constraint.Relationship_Type
    ELSE Str("", "Finish <= Start", "")

SplicedKinds == {"Finish <= Start", "Finish = Start"}

\* body of the product loop of step 1 in BACKUP_scheduler.py
BaselineLinks(constraint, product, relationship) ==
    LET first_instance == Get(task_instance_map, <<product, constraint.First>>)
        second_instance == Get(task_instance_map, <<product, constraint.Second>>)
    IN  IF first_instance # "" /\ second_instance # ""
        THEN IF /\ first_instance \in Keys(quality_requirements)
                /\ relationship \in SplicedKinds
             THEN LET qi_instance == Lookup(quality_requirements, first_instance)
                  IN  <<Link(first_instance, qi_instance, "Finish = Start", product),
                        Link(qi_instance, second_instance, relationship, product)>>
             ELSE <<Link(first_instance, second_instance, relationship, product)>>
        ELSE <<>>

\* body of the product loop of step 1 in constraints.py
ModularBaselineLinks(constraint, product, relationship) ==
    LET first_instance == Get(task_instance_map, <<product, constraint.First>>)
        second_instance == Get(task_instance_map, <<product, constraint.Second>>)
        has_qi == first_instance \in Keys(quality_requirements)
        has_cc == first_instance \in Keys(customer_requirements)
        qi_instance == Lookup(quality_requirements, first_instance)
        cc_instance == Lookup(customer_requirements, first_instance)
    IN  IF first_instance # "" /\ second_instance # ""
        THEN IF has_qi /\ has_cc
             THEN <<Link(first_instance, qi_instance, "Finish = Start", product),
                    Link(qi_instance, cc_instance, "Finish = Start", product),
                    Link(cc_instance, second_instance, relationship, product)>>
             ELSE IF has_qi
             THEN <<Link(first_instance, qi_instance, "Finish = Start", product),
                    Link(qi_instance, second_instance, relationship, product)>>
             ELSE IF has_cc
             THEN <<Link(first_instance, cc_instance, "Finish = Start", product),
                    Link(cc_instance, second_instance, relationship, product)>>
             ELSE <<Link(first_instance, second_instance, relationship, product)>>
        ELSE <<>>

\* step 2 for one late part relationship
LatePartLinks(lp_constraint) ==
    LET product == lp_constraint.Product_Line
        relationship ==
            normalize_relationship_type(lp_constraint.Relationship).value
        first_instance == "LP_" \o ToString(lp_constraint.First)
        second_instance ==
            IF lp_constraint.Second >= 1000
            THEN IF lp_constraint.Second < 2000
                 THEN "LP_" \o ToString(lp_constraint.Second)
                 ELSE "RW_" \o ToString(lp_constraint.Second)
            ELSE IF product # ""
                 THEN Get(task_instance_map, <<product, lp_constraint.Second>>)
                 ELSE ""
    IN  IF /\ first_instance \in DOMAIN tasks
           /\ second_instance # ""
           /\ second_instance \in DOMAIN tasks
        THEN <<TypedLink(first_instance, second_instance, relationship,
                         "Late Part", product)>>
        ELSE <<>>

\* step 3 for one rework relationship
ReworkLinks(rw_constraint) ==
    LET product == rw_constraint.Product_Line
        relationship ==
            normalize_relationship_type(rw_constraint.Relationship).value
        first_instance == "RW_" \o ToString(rw_constraint.First)
        second_instance ==
            IF rw_constraint.Second >= 1000
            THEN IF rw_constraint.Second >= 2000
                 THEN "RW_" \o ToString(rw_constraint.Second)
                 ELSE "LP_" \o ToString(rw_constraint.Second)
            ELSE IF product # ""
                 THEN Get(task_instance_map, <<product, rw_constraint.Second>>)
                 ELSE ""
    IN  IF /\ first_instance \in DOMAIN tasks
           /\ second_instance # ""
           /\ second_instance \in DOMAIN tasks
        THEN IF /\ first_instance \in Keys(quality_requirements)
                /\ relationship \in SplicedKinds
             THEN LET qi_instance == Lookup(quality_requirements, first_instance)
                  IN  <<TypedLink(first_instance, qi_instance, "Finish = Start",
                                  "Rework QI", product),
                        TypedLink(qi_instance, second_instance, relationship,
                                  "Rework", product)>>
             ELSE <<TypedLink(first_instance, second_instance, relationship,
                              "Rework", product)>>
        ELSE <<>>

\* step 4: the inspections no constraint built so far pairs with their
\* primary task; the product is the one of self.instance_to_product, which
\* the loaders keep equal to the product of the task record
RemainingQI(built) ==
    LET Paired(req) ==
            \E i \in 1..Len(built) :
                built[i].First = req[1] /\ built[i].Second = req[2]
        unpaired == SelectSeq(quality_requirements, LAMBDA req : ~Paired(req))
    IN  [i \in 1..Len(unpaired) |->
            Link(unpaired[i][1], unpaired[i][2], "Finish = Start",
                 tasks[unpaired[i][1]].product)]

\* ProductionScheduler.build_dynamic_dependencies past the cache check: the
\* list it constructs, or the exception of the normalizer
BuildList ==
    LET Normalized(c) == normalize_relationship_type(RelationshipOf(c))
        baseline ==
            ConcatAll([i \in 1..Len(precedence_constraints) |->
                ConcatAll([j \in 1..Len(product_order) |->
                    BaselineLinks(precedence_constraints[i], product_order[j],
                        Normalized(precedence_constraints[i]).value)])])
        late == ConcatAll([i \in 1..Len(late_part_constraints) |->
                              LatePartLinks(late_part_constraints[i])])
        rework == ConcatAll([i \in 1..Len(rework_constraints) |->
                                ReworkLinks(rework_constraints[i])])
        raised ==
            \/ \E i \in 1..Len(precedence_constraints) :
                   Normalized(precedence_constraints[i]).raised
            \/ \E i \in 1..Len(late_part_constraints) :
                   normalize_relationship_type(
                       late_part_constraints[i].Relationship).raised
            \/ \E i \in 1..Len(rework_constraints) :
                   normalize_relationship_type(
                       rework_constraints[i].Relationship).raised
    IN  IF raised
        THEN [raised |-> TRUE, constraints |-> <<>>]
        ELSE [raised |-> FALSE,
              constraints |-> (baseline \o late \o rework)
                                  \o RemainingQI(baseline \o late \o rework)]

\* constraints.build_dynamic_dependencies past the cache check: steps 2, 3
\* and 4 loop over their registries and do nothing
ModularBuildList ==
    LET Normalized(c) == utils_normalize_relationship_type(RelationshipOf(c))
        baseline ==
            ConcatAll([i \in 1..Len(precedence_constraints) |->
                ConcatAll([j \in 1..Len(product_order) |->
                    ModularBaselineLinks(precedence_constraints[i],
                        product_order[j],
                        Normalized(precedence_constraints[i]).value)])])
    IN  [raised |-> \E i \in 1..Len(precedence_constraints) :
                        Normalized(precedence_constraints[i]).raised,
         constraints |-> baseline]

\* self._dynamic_constraints_cache is not None
CacheIsSet_Truthy == constraints_cached /\ dynamic_constraints # <<>>

CacheIsSet == constraints_cached

\* One call of build_dynamic_dependencies on the object.
build_dynamic_dependencies ==
    /\ pc \in {"loaded", "built"}
    /\ Len(returned) < MaxCalls
    /\ IF CacheIsSet
       THEN /\ returned' = Append(returned, [constraints |-> dynamic_constraints,
                                             object |-> build_count])
            /\ pc' = "built"
            /\ UNCHANGED <<dynamic_constraints, constraints_cached, build_count>>
       ELSE LET result == IF implementation = "constraints"
                          THEN ModularBuildList
                          ELSE BuildList
            IN  IF result.raised
                THEN /\ pc' = "raised"
                     /\ UNCHANGED <<dynamic_constraints, constraints_cached,
                                    build_count, returned>>
                ELSE /\ dynamic_constraints' = result.constraints
                     /\ constraints_cached' = TRUE
                     /\ build_count' = build_count + 1
                     /\ returned' = Append(returned,
                                           [constraints |-> result.constraints,
                                            object |-> build_count + 1])
                     /\ pc' = "built"
    /\ UNCHANGED <<tasks, late_part_tasks, rework_tasks, quality_inspections,
                   on_dock_dates, team_capacity, quality_team_capacity,
                   team_shifts, quality_team_shifts, holidays,
                   days_to_delivery, silent_mode, validation_results, optimizer, previous_run,
                   implementation, product_order, precedence_constraints,
                   late_part_constraints, rework_constraints,
                   task_instance_map, quality_requirements,
                   customer_requirements, task_schedule, ready_tasks,
                   scheduled_count, iteration_count, failed_tasks,
                   task_retry_counts, task_instance_id, priority,
                   earliest_start, current_time, iterations>>

\* Between two calls the owner of the object edits its registries: the
\* static relationships are dropped, or the inspection requirements are.
ChangeRegistry ==
    /\ pc = "built"
    /\ \/ /\ precedence_constraints # <<>>
          /\ precedence_constraints' = <<>>
          /\ UNCHANGED <<quality_requirements, customer_requirements>>
       \/ /\ quality_requirements # <<>> \/ customer_requirements # <<>>
          /\ quality_requirements' = <<>>
          /\ customer_requirements' = <<>>
          /\ UNCHANGED precedence_constraints
    /\ UNCHANGED <<tasks, dynamic_constraints, late_part_tasks, rework_tasks,
                   quality_inspections, on_dock_dates, team_capacity,
                   quality_team_capacity, team_shifts, quality_team_shifts,
                   holidays, days_to_delivery, silent_mode, validation_results, optimizer,
                   constraints_cached, previous_run, implementation,
                   product_order, late_part_constraints, rework_constraints,
                   task_instance_map, returned, build_count, pc,
                   task_schedule, ready_tasks, scheduled_count,
                   iteration_count, failed_tasks, task_retry_counts,
                   task_instance_id, priority, earliest_start, current_time,
                   iterations>>

\* load_data_from_csv on the same object, of a file that holds the
\* registries as they are: it clears the cached list.
load_data_from_csv ==
    /\ pc = "built"
    /\ implementation = "BACKUP_scheduler"
    /\ dynamic_constraints' = <<>>
    /\ constraints_cached' = FALSE
    /\ pc' = "loaded"
    /\ UNCHANGED <<tasks, late_part_tasks, rework_tasks, quality_inspections,
                   on_dock_dates, team_capacity, quality_team_capacity,
                   team_shifts, quality_team_shifts, holidays,
                   days_to_delivery, silent_mode, validation_results, optimizer, previous_run,
                   implementation, product_order, precedence_constraints,
                   late_part_constraints, rework_constraints,
                   task_instance_map, quality_requirements,
                   customer_requirements, returned, build_count,
                   task_schedule, ready_tasks, scheduled_count,
                   iteration_count, failed_tasks, task_retry_counts,
                   task_instance_id, priority, earliest_start, current_time,
                   iterations>>

BuildNext == build_dynamic_dependencies \/ ChangeRegistry \/ load_data_from_csv

\* ------------------------------------------------- registries as loaded
\* What load_data_from_csv leaves in the registries for the rows of a file.
BaselineTaskIds == {1, 2}

Registry(pairs) ==
    [id \in {pair[1] : pair \in pairs} |->
        (CHOOSE pair \in pairs : pair[1] = id)[2]]

\* _load_product_lines: an instance of every baseline task in the range
InstanceMap(jobs) ==
    [key \in {k \in (DOMAIN jobs.range) \X BaselineTaskIds :
                  k[2] \in jobs.range[k[1]]} |->
        create_task_instance_id(key[1], key[2], "baseline")]

\* _load_quality_inspections: rows outside, products inside
InspectionPairs(jobs, rows, tag, offset) ==
    ConcatAll([i \in 1..Len(rows) |->
        ConcatAll([j \in 1..Len(jobs.order) |->
            IF <<jobs.order[j], rows[i]>> \in DOMAIN InstanceMap(jobs)
            THEN << <<InstanceMap(jobs)[<<jobs.order[j], rows[i]>>],
                      jobs.order[j] \o tag \o ToString(offset + rows[i])>> >>
            ELSE <<>>])])

\* product of a late part task: the first relationship that names it first
\* and has a product line
LatePartProduct(late, task_id) ==
    IF \E i \in 1..Len(late) : late[i].First = task_id /\ late[i].Product_Line # ""
    THEN late[CHOOSE i \in 1..Len(late) :
                  late[i].First = task_id /\ late[i].Product_Line # ""].Product_Line
    ELSE ""

\* product of a rework task: the first relationship that names it at either
\* end and has a product line
ReworkProduct(rework, task_id) ==
    IF \E i \in 1..Len(rework) :
           /\ task_id \in {rework[i].First, rework[i].Second}
           /\ rework[i].Product_Line # ""
    THEN rework[CHOOSE i \in 1..Len(rework) :
                    /\ task_id \in {rework[i].First, rework[i].Second}
                    /\ rework[i].Product_Line # ""].Product_Line
    ELSE ""

ReworkInspections(cfg) ==
    IF cfg.rw_needs_qi /\ 2001 \in cfg.rw_tasks
    THEN << <<"RW_2001", "RW_QI_2001">> >>
    ELSE <<>>

LoadedQuality(cfg) ==
    InspectionPairs(cfg.jobs, cfg.quality_rows, "_QI_", 500)
        \o ReworkInspections(cfg)

LoadedCustomer(cfg) ==
    InspectionPairs(cfg.jobs, cfg.customer_rows, "_CC_", 600)

LoadedTasks(cfg) ==
    LET map == InstanceMap(cfg.jobs)
        qr == InspectionPairs(cfg.jobs, cfg.quality_rows, "_QI_", 500)
        cr == LoadedCustomer(cfg)
        ProductOf(primary) ==
            (CHOOSE key \in DOMAIN map : map[key] = primary)[1]
    IN  Registry(
            {<<map[key], Task(1, "Mechanic Team 1", 1, FALSE, "Production",
                              key[1])>> : key \in DOMAIN map}
            \cup {<<qr[i][2], Task(1, "Quality Team 1", 1, TRUE,
                                   "Quality Inspection", ProductOf(qr[i][1]))>> :
                      i \in 1..Len(qr)}
            \cup {<<cr[i][2], Task(1, "Customer Team 1", 1, FALSE,
                                   "Customer Inspection", ProductOf(cr[i][1]))>> :
                      i \in 1..Len(cr)}
            \cup {<<"LP_" \o ToString(id),
                    Task(1, "Mechanic Team 1", 1, FALSE, "Late Part",
                         LatePartProduct(cfg.late, id))>> : id \in cfg.lp_tasks}
            \cup {<<"RW_" \o ToString(id),
                    Task(1, "Mechanic Team 1", 1, FALSE, "Rework",
                         ReworkProduct(cfg.rework, id))>> : id \in cfg.rw_tasks}
            \cup {<<ReworkInspections(cfg)[i][2],
                    Task(1, "Quality Team 1", 1, TRUE, "Quality Inspection",
                         ReworkProduct(cfg.rework, 2001))>> :
                      i \in 1..Len(ReworkInspections(cfg))})

ProductLineJobs ==
    {[order |-> <<"A">>, range |-> [p \in {"A"} |-> 1..2]],
     [order |-> <<"A", "B">>,
      range |-> [p \in {"A", "B"} |-> IF p = "A" THEN 1..2 ELSE 2..2]]}

\* Spellings of a relationship cell: the six kinds, aliases with blanks
\* around them, a spelling the table does not know, a cell of one blank,
\* and a blank cell.
Spellings ==
    {Str("", k, "") : k \in Kinds}
        \cup {Str(" ", "FS", ""), Str("", "F=S", " "),
              Str("", "Finish to Start", ""), Str(" ", "", ""), NaN}

Relationship(first, second, spelling) ==
    [First |-> first, Second |-> second, Relationship_Type |-> spelling]

ProductRelationship(first, second, spelling, product_line) ==
    [First |-> first, Second |-> second, Relationship |-> spelling,
     Product_Line |-> product_line]

BuildConfig(impl, jobs, precedence, qrows, crows, late, lp, rework, rw, rwqi) ==
    [implementation |-> impl, jobs |-> jobs, precedence |-> precedence,
     quality_rows |-> qrows, customer_rows |-> crows, late |-> late,
     lp_tasks |-> lp, rework |-> rework, rw_tasks |-> rw, rw_needs_qi |-> rwqi]

\* Static relationships over the tasks 1 and 2 of the products and a task 3
\* no product has, with inspections of task 1 or of task 2.
BaselineBuilds ==
    LET relationships ==
            {Relationship(e[1], e[2], sp) :
                 e \in {<<1, 2>>, <<1, 3>>, <<3, 2>>}, sp \in Spellings}
        lists == UNION {[1..n -> relationships] : n \in 0..MaxRelationships}
    IN  {BuildConfig("BACKUP_scheduler", jobs, precedence, qrows, <<>>, <<>>,
                     {}, <<>>, {}, FALSE) :
             jobs \in ProductLineJobs, precedence \in lists,
             qrows \in {<<>>, <<1>>, <<2>>}}
        \cup {BuildConfig("constraints", jobs, precedence, qrows, crows,
                          <<>>, {}, <<>>, {}, FALSE) :
                  jobs \in ProductLineJobs, precedence \in lists,
                  qrows \in {<<>>, <<1>>, <<2>>}, crows \in {<<>>, <<1>>}}

\* Late part and rework relationships towards baseline tasks, late parts and
\* rework tasks, with and without the task details rows that register them.
LatePartBuilds ==
    LET jobs == [order |-> <<"A", "B">>,
                 range |-> [p \in {"A", "B"} |-> IF p = "A" THEN 1..2 ELSE 2..2]]
        late == {<<>>} \cup
                {<<ProductRelationship(1001, second, Str("", sp, ""), product)>> :
                     second \in {1, 3, 1002, 2001}, sp \in {"FS", "Finish <= Finish"},
                     product \in {"B", ""}}
        rework == {<<>>} \cup
                  {<<ProductRelationship(2001, second, Str("", sp, ""), product)>> :
                       second \in {2, 1001, 2002}, sp \in {"F=S", "SS"},
                       product \in {"A", ""}}
    IN  {BuildConfig("BACKUP_scheduler", jobs, <<>>, qrows, <<>>, l, lp, r,
                     rw, rwqi) :
             qrows \in {<<>>, <<1>>}, l \in late,
             lp \in {{}, {1001}, {1001, 1002}}, r \in rework,
             rw \in {{}, {2001}, {2001, 2002}}, rwqi \in BOOLEAN}

BuildConfigs == BaselineBuilds \cup LatePartBuilds

BuildInit ==
    /\ \E cfg \in BuildConfigs :
          /\ implementation = cfg.implementation
          /\ product_order = cfg.jobs.order
          /\ task_instance_map = InstanceMap(cfg.jobs)
          /\ precedence_constraints = cfg.precedence
          /\ late_part_constraints = cfg.late
          /\ rework_constraints = cfg.rework
          /\ quality_requirements = LoadedQuality(cfg)
          /\ customer_requirements = LoadedCustomer(cfg)
          /\ tasks = LoadedTasks(cfg)
          /\ late_part_tasks = {"LP_" \o ToString(id) : id \in cfg.lp_tasks}
          /\ rework_tasks = {"RW_" \o ToString(id) : id \in cfg.rw_tasks}
    /\ quality_inspections = NoMap
    /\ on_dock_dates = NoMap
    /\ dynamic_constraints = <<>>
    /\ constraints_cached = FALSE
    /\ returned = <<>>
    /\ build_count = 0
    /\ validation_results = <<>>
    /\ pc = "loaded"
    /\ team_capacity = Caps(1)
    /\ quality_team_capacity = [team \in {"Quality Team 1"} |-> 1]
    /\ team_shifts = [team \in {"Mechanic Team 1", "Mechanic Team 2"} |->
                         <<"1st">>]
    /\ quality_team_shifts = [team \in {"Quality Team 1"} |-> <<"1st">>]
    /\ holidays = [p \in {"A"} |-> {}]
    /\ days_to_delivery = [p \in {"A", "B"} |-> 30]
    /\ silent_mode = TRUE
    /\ previous_run = <<>>
    /\ task_schedule = [t \in {} |-> 0]
    /\ ready_tasks = {}
    /\ scheduled_count = 0
    /\ iteration_count = 0
    /\ failed_tasks = {}
    /\ task_retry_counts = [t \in {} |-> 0]
    /\ task_instance_id = 0
    /\ priority = 0
    /\ earliest_start = StartDate
    /\ current_time = StartDate
    /\ iterations = 0
    /\ OptimizerIdle

BuildSpec == BuildInit /\ [][BuildNext]_vars

\* -------------------------------------------------------------- validator
\* SchedulerValidator.validate_schedule_comprehensive on the scheduler
\* object: the checks that can clear is_valid, in the order of the code.
unscheduled_tasks == {task_id \in all_tasks : task_id \notin Scheduled}

\* the instants at which an entry is entered in team_usage_timeline: its
\* start and every 15 minutes after it, before its end
SamplePoints(schedule) ==
    {current \in schedule.start_time..(schedule.end_time - 1) :
         (current - schedule.start_time) % SampleMinutes = 0}

\* team_usage_timeline[team][time_point], as the ids of the entries
TasksAtTime(team, time_point) ==
    {task_id \in Scheduled :
         /\ task_schedule[task_id].team = team
         /\ time_point \in SamplePoints(task_schedule[task_id])}

RECURSIVE SumMechanics(_)
SumMechanics(S) ==
    IF S = {} THEN 0
    ELSE LET task_id == CHOOSE x \in S : TRUE
         IN  task_schedule[task_id].mechanics_required
                 + SumMechanics(S \ {task_id})

capacity_violations ==
    {v \in {[team |-> task_schedule[task_id].team, time |-> time_point] :
               task_id \in Scheduled,
               time_point \in UNION {SamplePoints(task_schedule[x]) :
                                         x \in Scheduled}} :
         /\ TasksAtTime(v.team, v.time) # {}
         /\ SumMechanics(TasksAtTime(v.team, v.time)) > CapacityOf(v.team)}

precedence_violations ==
    {i \in 1..Len(dynamic_constraints) :
         LET constraint == dynamic_constraints[i]
         IN  /\ constraint.First \in Scheduled
             /\ constraint.Second \in Scheduled
             /\ constraint.Relationship \in {"Finish <= Start", "Finish = Start"}
             /\ task_schedule[constraint.First].end_time
                    > task_schedule[constraint.Second].start_time
                          + ToleranceMinutes}

late_part_violations ==
    {task_id \in late_part_tasks \cap Scheduled :
         /\ task_id \in DOMAIN on_dock_dates
         /\ task_schedule[task_id].start_time
                < AtSix(DayOf(on_dock_dates[task_id]
                                  + LatePartDelayDays * MinutesPerDay))}

resource_requirement_violations ==
    {task_id \in Scheduled :
         tasks[task_id].mechanics_required
             > CapacityOf(task_schedule[task_id].team)}
        \cup {task_id \in Scheduled :
                  task_schedule[task_id].mechanics_required
                      # tasks[task_id].mechanics_required}

\* validation_results['errors'], as the tags of the messages appended
ErrorsRecorded ==
    (IF unscheduled_tasks # {} THEN <<"INCOMPLETE">> ELSE <<>>)
        \o (IF capacity_violations # {} THEN <<"CAPACITY">> ELSE <<>>)
        \o (IF precedence_violations # {} THEN <<"PRECEDENCE">> ELSE <<>>)
        \o (IF late_part_violations # {} THEN <<"LATE PARTS">> ELSE <<>>)
        \o (IF resource_requirement_violations # {}
            THEN <<"RESOURCES">> ELSE <<>>)

\* Fault injection: the late part check records its error and leaves
\* is_valid as it was.
IsValid_LatePartsIgnored ==
    ~(\/ unscheduled_tasks # {}
      \/ capacity_violations # {}
      \/ precedence_violations # {}
      \/ resource_requirement_violations # {})

\* validation_results['is_valid'] after the five checks
IsValid ==
    ~(\/ unscheduled_tasks # {}
      \/ capacity_violations # {}
      \/ precedence_violations # {}
      \/ late_part_violations # {}
      \/ resource_requirement_violations # {})

validate_schedule_comprehensive ==
    /\ pc = "scheduled"
    /\ validation_results' =
           <<[is_valid |-> IsValid,
              total_tasks |-> total_tasks,
              scheduled_tasks |-> Cardinality(Scheduled),
              errors |-> ErrorsRecorded,
              resource_violations |-> capacity_violations,
              precedence_violations |-> precedence_violations,
              late_part_violations |-> late_part_violations]>>
    /\ pc' = "validated"
    /\ UNCHANGED <<tasks, dynamic_constraints, late_part_tasks, rework_tasks,
                   quality_inspections, on_dock_dates, team_capacity,
                   quality_team_capacity, team_shifts, quality_team_shifts,
                   holidays, days_to_delivery, silent_mode, optimizer,
                   constraints_cached, previous_run, implementation,
                   product_order, precedence_constraints,
                   late_part_constraints, rework_constraints,
                   task_instance_map, quality_requirements,
                   customer_requirements, returned, build_count,
                   task_schedule, ready_tasks, scheduled_count,
                   iteration_count, failed_tasks, task_retry_counts,
                   task_instance_id, priority, earliest_start, current_time,
                   iterations>>

ValidateNext == validate_schedule_comprehensive

\* Schedules handed to the validator: two tasks of one team, the second
\* scheduled or not, starting together, a few minutes or a quarter of an
\* hour apart, under no constraint or one of any kind from the first to the
\* second; the first may be a late part whose part is on dock at the start
\* of the horizon or the day before.
ValidatedStarts == {360, 365, 374, 375}

ValidatedDurations == {15, 30}

ValidateInit ==
    /\ \E required \in 1..MaxHeadcount, late \in {{}, {1}},
          dock \in {NoMap, [x \in {1} |-> 0],
                    [x \in {1} |-> 0 - MinutesPerDay]} :
          /\ tasks = [t \in 1..2 |->
                         Task(15, "Mechanic Team 1",
                              IF t = 1 THEN 1 ELSE required, FALSE,
                              IF t \in late THEN "Late Part" ELSE "Production",
                              "A")]
          /\ late_part_tasks = late
          /\ on_dock_dates = dock
    /\ \E first \in ValidatedStarts \X ValidatedDurations,
          second \in {<<>>} \cup (ValidatedStarts \X ValidatedDurations),
          scheduled \in 1..MaxHeadcount :
          task_schedule =
              [t \in (IF second = <<>> THEN {1} ELSE {1, 2}) |->
                  LET e == IF t = 1 THEN first ELSE second
                  IN  [ScheduleEntry(tasks[t], e[1], "1st") EXCEPT
                           !.end_time = e[1] + e[2], !.duration = e[2],
                           !.mechanics_required =
                               IF t = 1 THEN 1 ELSE scheduled]]
    /\ dynamic_constraints \in
           {<<>>} \cup {<<Constraint(1, 2, k)>> : k \in Kinds}
    /\ \E c \in 1..MaxHeadcount : team_capacity = Caps(c)
    /\ constraints_cached = TRUE
    /\ validation_results = <<>>
    /\ pc = "scheduled"
    /\ rework_tasks = {}
    /\ quality_inspections = NoMap
    /\ quality_team_capacity = [team \in {"Quality Team 1"} |-> 1]
    /\ team_shifts = [team \in {"Mechanic Team 1", "Mechanic Team 2"} |->
                         <<"1st">>]
    /\ quality_team_shifts = [team \in {"Quality Team 1"} |-> <<"1st">>]
    /\ holidays = [p \in {"A"} |-> {}]
    /\ days_to_delivery = [p \in {"A"} |-> 30]
    /\ silent_mode = TRUE
    /\ previous_run = <<>>
    /\ implementation = "BACKUP_scheduler"
    /\ product_order = <<>>
    /\ precedence_constraints = <<>>
    /\ late_part_constraints = <<>>
    /\ rework_constraints = <<>>
    /\ task_instance_map = [x \in {} |-> 0]
    /\ quality_requirements = <<>>
    /\ customer_requirements = <<>>
    /\ returned = <<>>
    /\ build_count = 0
    /\ ready_tasks = {}
    /\ scheduled_count = 0
    /\ iteration_count = 0
    /\ failed_tasks = {}
    /\ task_retry_counts = [t \in {} |-> 0]
    /\ task_instance_id = 0
    /\ priority = 0
    /\ earliest_start = StartDate
    /\ current_time = StartDate
    /\ iterations = 0
    /\ OptimizerIdle

ValidateSpec == ValidateInit /\ [][ValidateNext]_vars

\* ------------------------------------------------------ capacity searches
\* The optimization layer runs the scheduler under trial capacities.  A run
\* is taken by its outcome, as a function of the capacity tables it reads:
\* workload.need[team] is the capacity below which the tasks of a team stay
\* unscheduled, workload.days[c] the working days the schedule spans when
\* the bottleneck team, Mechanic Team 1, has capacity c (the span at
\* MaxCapacity for any larger c), and workload.raises tells whether
\* generate_global_priority_list raises, as it does on a cyclic graph.
EmptySchedule == [t \in {} |-> 0]

\* the value a call returns for "no solution"
None == [value |-> "None"]

CapacityIn(mechanic, quality, team) ==
    LET c == IF team \in DOMAIN mechanic THEN mechanic[team] ELSE 0
    IN  IF c # 0 THEN c
        ELSE IF team \in DOMAIN quality THEN quality[team] ELSE 0

Clamp(c) == IF c > MaxCapacity THEN MaxCapacity ELSE IF c < 1 THEN 1 ELSE c

\* self.task_schedule after generate_global_priority_list returned
RunSchedule(mechanic, quality) ==
    LET placed == {t \in all_tasks :
                      CapacityIn(mechanic, quality, tasks[t].team)
                          >= workload.need[tasks[t].team]}
        span == workload.days[
                    Clamp(CapacityIn(mechanic, quality, "Mechanic Team 1"))]
        last_day == IF span = 1 THEN 0 ELSE span + 1
    IN  [t \in placed |->
            [ScheduleEntry(tasks[t], StartDate, "1st") EXCEPT
                !.end_time = StartDate + last_day * MinutesPerDay
                                 + tasks[t].duration]]

\* self.task_schedule after a run under the given tables, raising or not
ScheduleAfterRun(mechanic, quality) ==
    IF workload.raises THEN EmptySchedule ELSE RunSchedule(mechanic, quality)

SetMin(S) == CHOOSE x \in S : \A y \in S : x <= y

calculate_makespan(schedule) ==
    IF DOMAIN schedule = {} THEN 0
    ELSE IF Cardinality(DOMAIN schedule) < total_tasks THEN Unscheduled
    ELSE LET start_time == SetMin({schedule[t].start_time :
                                      t \in DOMAIN schedule})
             end_time == SetMax({schedule[t].end_time : t \in DOMAIN schedule})
         IN  Cardinality(
                 {d \in DayOf(start_time)..DayOf(end_time) :
                      \E product \in DOMAIN days_to_delivery :
                          is_working_day(d * MinutesPerDay, product)})

delivery_date(product) == days_to_delivery[product] * MinutesPerDay

\* calculate_lateness_metrics()[product]['lateness_days']
lateness_days(schedule, product) ==
    LET ends == {schedule[t].end_time :
                    t \in {x \in DOMAIN schedule :
                              schedule[x].product = product}}
    IN  IF ends = {} THEN Unscheduled
        ELSE (SetMax(ends) - delivery_date(product)) \div MinutesPerDay

\* max(lateness_days of the products with one below 999999, default=999)
max_lateness(schedule) ==
    LET values == {lateness_days(schedule, product) :
                      product \in DOMAIN days_to_delivery}
        known == {v \in values : v < Unscheduled}
    IN  IF known = {} THEN NoLateness ELSE SetMax(known)

calculate_minimum_team_requirements ==
    [team \in (DOMAIN team_capacity \cup DOMAIN quality_team_capacity
                   \cup {tasks[t].team : t \in all_tasks}) \ {""} |->
        LET by_task == {tasks[t].mechanics_required :
                           t \in {x \in all_tasks : tasks[x].team = team}}
            by_inspection ==
                IF team \in DOMAIN quality_team_capacity
                THEN {tasks[qi].mechanics_required :
                         qi \in DOMAIN quality_inspections \cap all_tasks}
                ELSE {}
        IN  SetMax({0} \cup by_task \cup by_inspection)]

\* min_requirements.get(team, 1)
MinRequired(team) ==
    IF team \in DOMAIN calculate_minimum_team_requirements
    THEN calculate_minimum_team_requirements[team]
    ELSE 1

Uniform(table, capacity) == [team \in DOMAIN table |-> capacity]

\* for team, capacity in original.items(): table[team] = capacity
Restored(table, original) ==
    [team \in DOMAIN table \cup DOMAIN original |->
        IF team \in DOMAIN original THEN original[team] ELSE table[team]]

\* the tables as the caller handed them over, kept for the comparison with
\* the tables the call leaves
Entry == [mechanic |-> team_capacity, quality |-> quality_team_capacity]

\* what no capacity search writes
SearchFrame ==
    UNCHANGED <<dynamic_constraints, late_part_tasks, rework_tasks,
                quality_inspections, on_dock_dates, team_shifts,
                quality_team_shifts, holidays, days_to_delivery, silent_mode,
                constraints_cached, previous_run, implementation,
                product_order, precedence_constraints, late_part_constraints,
                rework_constraints, task_instance_map, quality_requirements,
                customer_requirements, returned, build_count,
                validation_results, original_team_capacity,
                original_quality_capacity, workload, trials, ready_tasks,
                scheduled_count, iteration_count, failed_tasks,
                task_retry_counts, task_instance_id, priority, earliest_start,
                current_time, iterations>>

\* --- BACKUP_scheduler.scenario_2_minimize_makespan, one action per trial
SearchBounds ==
    {b \in (1..MaxCapacity) \X (1..MaxCapacity) : b[1] <= b[2]}
        \cup {ExampleBounds}

scenario_2_minimize_makespan ==
    /\ pc = "loaded"
    /\ SearchFrame
    /\ implementation = "BACKUP_scheduler"
    /\ \E bounds \in SearchBounds :
          LET min_mech_required ==
                  SetMax({1} \cup {MinRequired(team) :
                                      team \in DOMAIN team_capacity})
              min_qual_required ==
                  SetMax({1} \cup {MinRequired(team) :
                                      team \in DOMAIN quality_team_capacity})
              min_mechanics == Max2(bounds[1], min_mech_required)
              min_quality == Max2(1, min_qual_required)
          IN  search' = [strategy |-> "uniform",
                         entry |-> Entry,
                         bounds |-> bounds,
                         min_quality |-> min_quality,
                         max_quality |-> MaxQuality,
                         best_makespan |-> Infinity,
                         best_mech |-> bounds[2],
                         best_qual |-> MaxQuality,
                         mech_low |-> min_mechanics,
                         mech_high |-> bounds[2],
                         qual_low |-> min_quality,
                         qual_high |-> MaxQuality,
                         tested |-> {}]
    /\ pc' = "phase1"
    /\ UNCHANGED <<tasks, task_schedule, team_capacity, quality_team_capacity,
                   scenario_result>>

MechanicTrial ==
    /\ pc = "phase1"
    /\ SearchFrame
    /\ search.strategy = "uniform"
    /\ search.mech_low <= search.mech_high
    /\ LET mech_mid == (search.mech_low + search.mech_high) \div 2
           mechanic == Uniform(team_capacity, mech_mid)
           quality == Uniform(quality_team_capacity, search.max_quality)
           schedule == ScheduleAfterRun(mechanic, quality)
           makespan == calculate_makespan(schedule)
           seen == [search EXCEPT !.tested = @ \cup {mech_mid}]
       IN  /\ team_capacity' = mechanic
           /\ quality_team_capacity' = quality
           /\ task_schedule' = schedule
           /\ search' =
                  IF workload.raises
                         \/ Cardinality(DOMAIN schedule) < total_tasks
                  THEN [seen EXCEPT !.mech_low = mech_mid + 1]
                  ELSE IF makespan < search.best_makespan
                  THEN [seen EXCEPT !.best_makespan = makespan,
                                    !.best_mech = mech_mid,
                                    !.mech_high = mech_mid - 1]
                  ELSE IF makespan = search.best_makespan
                  THEN [seen EXCEPT !.best_mech =
                                        IF mech_mid < @ THEN mech_mid ELSE @,
                                    !.mech_high = mech_mid - 1]
                  ELSE [seen EXCEPT !.mech_low = mech_mid + 1]
    /\ UNCHANGED <<tasks, pc, scenario_result>>

\* between the two loops: every mechanic team is set to best_mech
QualityPhase ==
    /\ pc = "phase1"
    /\ SearchFrame
    /\ search.strategy = "uniform"
    /\ search.mech_low > search.mech_high
    /\ team_capacity' = Uniform(team_capacity, search.best_mech)
    /\ search' = [search EXCEPT !.qual_low = search.min_quality,
                                !.qual_high = search.max_quality]
    /\ pc' = "phase2"
    /\ UNCHANGED <<tasks, task_schedule, quality_team_capacity,
                   scenario_result>>

QualityTrial ==
    /\ pc = "phase2"
    /\ SearchFrame
    /\ search.strategy = "uniform"
    /\ search.qual_low <= search.qual_high
    /\ LET qual_mid == (search.qual_low + search.qual_high) \div 2
           quality == Uniform(quality_team_capacity, qual_mid)
           schedule == ScheduleAfterRun(team_capacity, quality)
           makespan == calculate_makespan(schedule)
       IN  /\ quality_team_capacity' = quality
           /\ task_schedule' = schedule
           /\ search' =
                  IF workload.raises
                         \/ Cardinality(DOMAIN schedule) < total_tasks
                  THEN [search EXCEPT !.qual_low = qual_mid + 1]
                  ELSE IF makespan <= search.best_makespan
                  THEN [search EXCEPT !.best_qual = qual_mid,
                                      !.qual_high = qual_mid - 1]
                  ELSE [search EXCEPT !.qual_low = qual_mid + 1]
    /\ UNCHANGED <<tasks, pc, team_capacity, scenario_result>>

\* after the second loop: the run under the best capacities, outside any
\* try, then the restore from the capacities saved by the loader
GenerateOptimal ==
    /\ pc = "phase2"
    /\ SearchFrame
    /\ search.strategy = "uniform"
    /\ search.qual_low > search.qual_high
    /\ LET mechanic == Uniform(team_capacity, search.best_mech)
           quality == Uniform(quality_team_capacity, search.best_qual)
           schedule == ScheduleAfterRun(mechanic, quality)
       IN  /\ task_schedule' = schedule
           /\ IF workload.raises
              THEN /\ pc' = "raised"
                   /\ team_capacity' = mechanic
                   /\ quality_team_capacity' = quality
                   /\ UNCHANGED scenario_result
              ELSE /\ pc' = "returned"
                   /\ team_capacity' =
                          Restored(mechanic, original_team_capacity)
                   /\ quality_team_capacity' =
                          Restored(quality, original_quality_capacity)
                   /\ scenario_result' =
                          <<[optimal_mechanics |-> search.best_mech,
                             optimal_quality |-> search.best_qual,
                             makespan |-> calculate_makespan(schedule),
                             total_headcount |->
                                 search.best_mech
                                     * Cardinality(DOMAIN team_capacity)
                                 + search.best_qual
                                     * Cardinality(
                                           DOMAIN quality_team_capacity)]>>
    /\ UNCHANGED <<tasks, search>>

\* --- scenarios.scenario_2_minimize_makespan: both capacities halved at once
scenarios_scenario_2_minimize_makespan ==
    /\ pc = "loaded"
    /\ SearchFrame
    /\ implementation = "scenarios"
    /\ \E bounds \in SearchBounds :
          search' = [strategy |-> "uniform",
                     entry |-> Entry,
                     bounds |-> bounds,
                     best_makespan |-> Infinity,
                     best_config |-> <<>>,
                     mech_low |-> bounds[1],
                     mech_high |-> bounds[2],
                     qual_low |-> 1,
                     qual_high |-> MaxQuality,
                     iterations |-> 0,
                     tested |-> {}]
    /\ pc' = "search"
    /\ UNCHANGED <<tasks, task_schedule, team_capacity, quality_team_capacity,
                   scenario_result>>

UniformTrial ==
    /\ pc = "search"
    /\ SearchFrame
    /\ search.strategy = "uniform"
    /\ search.iterations < SearchIterations
    /\ LET mech_capacity == (search.mech_low + search.mech_high) \div 2
           qual_capacity == (search.qual_low + search.qual_high) \div 2
           mechanic == Uniform(team_capacity, mech_capacity)
           quality == Uniform(quality_team_capacity, qual_capacity)
           schedule == ScheduleAfterRun(mechanic, quality)
           makespan == calculate_makespan(schedule)
           counted == [search EXCEPT !.iterations = @ + 1,
                                     !.tested = @ \cup {mech_capacity}]
           after ==
               IF ~workload.raises
                      /\ Cardinality(DOMAIN schedule) = total_tasks
               THEN [counted EXCEPT
                        !.best_makespan =
                            IF makespan < @ THEN makespan ELSE @,
                        !.best_config =
                            IF makespan < search.best_makespan
                            THEN <<[mechanics |-> mech_capacity,
                                    quality |-> qual_capacity]>>
                            ELSE @,
                        !.mech_high = mech_capacity - 1,
                        !.qual_high = qual_capacity - 1]
               ELSE [counted EXCEPT !.mech_low = mech_capacity + 1,
                                    !.qual_low = qual_capacity + 1]
           exhausted == \/ after.mech_low > after.mech_high
                        \/ after.qual_low > after.qual_high
                        \/ after.iterations >= SearchIterations
       IN  /\ task_schedule' = schedule
           /\ search' = after
           /\ IF exhausted
              THEN /\ team_capacity' =
                          Restored(mechanic, original_team_capacity)
                   /\ quality_team_capacity' =
                          Restored(quality, original_quality_capacity)
                   /\ pc' = "returned"
                   /\ scenario_result' =
                          IF after.best_config = <<>> THEN <<None>>
                          ELSE <<[optimal_mechanics |->
                                      after.best_config[1].mechanics,
                                  optimal_quality |->
                                      after.best_config[1].quality,
                                  makespan |-> after.best_makespan,
                                  total_headcount |->
                                      after.best_config[1].mechanics
                                          * Cardinality(DOMAIN team_capacity)
                                      + after.best_config[1].quality
                                          * Cardinality(
                                                DOMAIN
                                                  quality_team_capacity)]>>
              ELSE /\ team_capacity' = mechanic
                   /\ quality_team_capacity' = quality
                   /\ UNCHANGED <<pc, scenario_result>>
    /\ UNCHANGED tasks

UniformNext ==
    \/ scenario_2_minimize_makespan
    \/ MechanicTrial
    \/ QualityPhase
    \/ QualityTrial
    \/ GenerateOptimal
    \/ scenarios_scenario_2_minimize_makespan
    \/ UniformTrial

\* A loaded object with one inspected task: task 1 of Mechanic Team 1 and
\* its inspection on Quality Team 1; tables as loaded.
SearchedTasks(required) ==
    [t \in 1..2 |->
        IF t = 1
        THEN Task(15, "Mechanic Team 1", required, FALSE, "Production", "A")
        ELSE Task(15, "Quality Team 1", 1, TRUE, "Quality Inspection", "A")]

\* every makespan-versus-capacity profile, every threshold from the task's
\* own requirement to one above MaxCapacity (no capacity of the profile
\* schedules everything)
Profiles(required) ==
    {[need |-> [team \in {"Mechanic Team 1", "Quality Team 1"} |->
                   IF team = "Mechanic Team 1" THEN k ELSE q],
      days |-> d, raises |-> FALSE] :
         k \in required..(MaxCapacity + 1), q \in 1..MaxQuality,
         d \in [1..MaxCapacity -> 1..MaxDays]}

SchedulerLoaded ==
    /\ late_part_tasks = {}
    /\ rework_tasks = {}
    /\ on_dock_dates = NoMap
    /\ dynamic_constraints = <<>>
    /\ constraints_cached = TRUE
    /\ team_shifts = [team \in {"Mechanic Team 1", "Mechanic Team 2"} |->
                         <<"1st">>]
    /\ quality_team_shifts = [team \in {"Quality Team 1"} |-> <<"1st">>]
    /\ holidays = [p \in {"A"} |-> {}]
    /\ days_to_delivery = [p \in {"A"} |-> DeliveryDay]
    /\ silent_mode = TRUE
    /\ previous_run = <<>>
    /\ product_order = <<>>
    /\ precedence_constraints = <<>>
    /\ late_part_constraints = <<>>
    /\ rework_constraints = <<>>
    /\ task_instance_map = [x \in {} |-> 0]
    /\ quality_requirements = <<>>
    /\ customer_requirements = <<>>
    /\ returned = <<>>
    /\ build_count = 0
    /\ validation_results = <<>>
    /\ task_schedule = EmptySchedule
    /\ ready_tasks = {}
    /\ scheduled_count = 0
    /\ iteration_count = 0
    /\ failed_tasks = {}
    /\ task_retry_counts = [t \in {} |-> 0]
    /\ task_instance_id = 0
    /\ priority = 0
    /\ earliest_start = StartDate
    /\ current_time = StartDate
    /\ iterations = 0
    /\ search = <<>>
    /\ scenario_result = <<>>
    /\ trials = <<>>
    /\ pc = "loaded"

UniformInit ==
    /\ \E required \in 1..MaxHeadcount :
          /\ tasks = SearchedTasks(required)
          /\ workload \in Profiles(required)
    /\ quality_inspections = [x \in {2} |-> 1]
    /\ \E c \in 1..MaxHeadcount : team_capacity = Caps(c)
    /\ quality_team_capacity = [team \in {"Quality Team 1"} |-> 1]
    /\ original_team_capacity = team_capacity
    /\ original_quality_capacity = quality_team_capacity
    /\ implementation \in {"BACKUP_scheduler", "scenarios"}
    /\ SchedulerLoaded

UniformSpec == UniformInit /\ [][UniformNext]_vars

\* --- BACKUP_scheduler.scenario_3_multidimensional_optimization
\* the teams in the order the loader entered them in the tables
TeamOrder ==
    <<"Mechanic Team 1", "Mechanic Team 2", "Mechanic Team 3",
      "Quality Team 1">>

Position(team) == CHOOSE i \in 1..Len(TeamOrder) : TeamOrder[i] = team

\* the first team of a set in that order, "" for an empty set
FirstOf(S) ==
    IF S = {} THEN ""
    ELSE TeamOrder[SetMin({Position(team) : team \in S})]

RECURSIVE SumOf(_)
SumOf(config) ==
    IF DOMAIN config = {} THEN 0
    ELSE LET team == CHOOSE x \in DOMAIN config : TRUE
         IN  config[team]
                 + SumOf([x \in DOMAIN config \ {team} |-> config[x]])

Raised(config, teams, amount) ==
    [team \in DOMAIN config |->
        IF team \in teams THEN config[team] + amount ELSE config[team]]

\* for team, capacity in config.items(): table[team] = capacity
Applied(table, config) == Restored(table, config)

Targets == {0 - 1, 0 - 3, 0 - 6}

scenario_3_multidimensional_optimization ==
    /\ pc = "loaded"
    /\ SearchFrame
    /\ implementation = "BACKUP_scheduler"
    /\ \E target_lateness \in Targets, max_iterations \in {2, MaxIterations},
          max_mechanics \in {MaxCapacity - 1, DefaultMaxMechanics} :
          search' = [strategy |-> "targeted",
                     entry |-> Entry,
                     target_lateness |-> target_lateness,
                     max_iterations |-> max_iterations,
                     max_mechanics |-> max_mechanics,
                     max_quality |->
                         IF max_mechanics = DefaultMaxMechanics
                         THEN DefaultMaxQuality ELSE MaxQuality,
                     min_requirements |-> calculate_minimum_team_requirements,
                     current_mech_config |->
                         [team \in DOMAIN original_team_capacity |->
                             Max2(MinRequired(team), 1)],
                     current_qual_config |->
                         [team \in DOMAIN original_quality_capacity |->
                             Max2(MinRequired(team), 1)],
                     best_config |-> <<>>,
                     best_total_workforce |-> Infinity,
                     best_max_lateness |-> Infinity,
                     iteration |-> 0,
                     achieved_target |-> FALSE,
                     test_config_mech |-> <<>>,
                     test_config_qual |-> <<>>,
                     reduction_attempts |-> 0,
                     successful_reductions |-> 0]
    /\ pc' = "phase1"
    /\ UNCHANGED <<tasks, task_schedule, team_capacity, quality_team_capacity,
                   scenario_result>>

\* min_requirements.get(team, 1) on the table computed when the call began
Minimum(team) ==
    IF team \in DOMAIN search.min_requirements
    THEN search.min_requirements[team]
    ELSE 1

\* one pass of the first loop: run under current_*_config, keep it when the
\* target is met, otherwise add capacity
TargetTrial ==
    /\ pc = "phase1"
    /\ SearchFrame
    /\ search.strategy = "targeted"
    /\ search.iteration < search.max_iterations \div 2
    /\ ~search.achieved_target
    /\ LET mech == search.current_mech_config
           qual == search.current_qual_config
           mechanic == Applied(team_capacity, mech)
           quality == Applied(quality_team_capacity, qual)
           schedule == ScheduleAfterRun(mechanic, quality)
           scheduled == Cardinality(DOMAIN schedule)
           below == {team \in DOMAIN mech : mech[team] < search.max_mechanics}
           first_two == {team \in DOMAIN mech :
                            Cardinality({x \in DOMAIN mech :
                                            Position(x) < Position(team)}) < 2}
           lateness == max_lateness(schedule)
           counted == [search EXCEPT !.iteration = @ + 1]
           increment == IF lateness - search.target_lateness > 10
                        THEN 2 ELSE 1
           short == {team \in DOMAIN qual : qual[team] < search.max_quality}
       IN  /\ team_capacity' = mechanic
           /\ quality_team_capacity' = quality
           /\ task_schedule' = schedule
           /\ search' =
                  IF workload.raises
                  THEN [counted EXCEPT !.current_mech_config =
                                           Raised(mech, {FirstOf(below)}, 1)]
                  ELSE IF scheduled < total_tasks
                  THEN IF 2 * (total_tasks - scheduled) > total_tasks
                       THEN [counted EXCEPT
                                !.current_mech_config =
                                    Raised(mech, first_two \cap below, 2)]
                       ELSE [counted EXCEPT
                                !.current_mech_config =
                                    Raised(mech, {FirstOf(below)}, 1)]
                  ELSE IF lateness <= search.target_lateness
                  THEN [counted EXCEPT
                           !.best_config =
                               <<[mechanic |-> mech, quality |-> qual]>>,
                           !.best_total_workforce = SumOf(mech) + SumOf(qual),
                           !.best_max_lateness = lateness,
                           !.achieved_target = TRUE]
                  ELSE IF below # {}
                  THEN [counted EXCEPT
                           !.current_mech_config =
                               Raised(mech, {FirstOf(below)}, increment)]
                  ELSE [counted EXCEPT
                           !.current_qual_config =
                               Raised(qual, {FirstOf(short)}, 1)]
    /\ UNCHANGED <<tasks, pc, scenario_result>>

\* the first loop is over: on to the second one with a copy of the best
\* configuration, or out with no solution and the loader's capacities
TargetPhaseEnd ==
    /\ pc = "phase1"
    /\ SearchFrame
    /\ search.strategy = "targeted"
    /\ \/ search.iteration >= search.max_iterations \div 2
       \/ search.achieved_target
    /\ IF search.achieved_target /\ search.best_config # <<>>
       THEN /\ search' = [search EXCEPT
                             !.test_config_mech = search.best_config[1].mechanic,
                             !.test_config_qual = search.best_config[1].quality]
            /\ pc' = "phase2"
            /\ UNCHANGED <<team_capacity, quality_team_capacity,
                           scenario_result>>
       ELSE /\ team_capacity' =
                   Restored(team_capacity, original_team_capacity)
            /\ quality_team_capacity' =
                   Restored(quality_team_capacity, original_quality_capacity)
            /\ scenario_result' = <<None>>
            /\ pc' = "returned"
            /\ UNCHANGED search
    /\ UNCHANGED <<tasks, task_schedule>>

\* Fault injection: the second loop is bounded by its attempts only.
SecondLoopGoesOn_AttemptsOnly ==
    search.reduction_attempts < MaxReductions

\* while iteration < max_iterations and reduction_attempts < 50
SecondLoopGoesOn ==
    /\ search.iteration < search.max_iterations
    /\ search.reduction_attempts < MaxReductions

\* Fault injection: a rejected reduction leaves the team lowered.
RejectedReduction_Kept(config, team) ==
    config

\* test_config[team] += 1 after a trial that was not accepted
RejectedReduction(config, team) ==
    Raised(config, {team}, 1)

\* one pass of the second loop: lower the first team above its minimum by
\* one, run, keep the configuration if the target still is met
ReductionTrial ==
    /\ pc = "phase2"
    /\ SearchFrame
    /\ search.strategy = "targeted"
    /\ SecondLoopGoesOn
    /\ LET mech == search.test_config_mech
           qual == search.test_config_qual
           mech_team == FirstOf({team \in DOMAIN mech :
                                    mech[team] > Minimum(team)})
           qual_team == FirstOf({team \in DOMAIN qual :
                                    qual[team] > Minimum(team)})
           counted == [search EXCEPT !.iteration = @ + 1,
                                     !.reduction_attempts = @ + 1]
           lowered_mech == IF mech_team # ""
                           THEN Raised(mech, {mech_team}, 0 - 1) ELSE mech
           lowered_qual == IF mech_team = ""
                           THEN Raised(qual, {qual_team}, 0 - 1) ELSE qual
           mechanic == Applied(team_capacity, lowered_mech)
           quality == Applied(quality_team_capacity, lowered_qual)
           schedule == ScheduleAfterRun(mechanic, quality)
           lateness == max_lateness(schedule)
       IN  IF mech_team = "" /\ qual_team = ""
           THEN /\ search' = counted
                /\ pc' = "final"
                /\ UNCHANGED <<team_capacity, quality_team_capacity,
                               task_schedule>>
           ELSE /\ team_capacity' = mechanic
                /\ quality_team_capacity' = quality
                /\ task_schedule' = schedule
                /\ pc' = pc
                /\ search' =
                       IF /\ ~workload.raises
                          /\ Cardinality(DOMAIN schedule) = total_tasks
                          /\ lateness <= search.target_lateness
                       THEN [counted EXCEPT
                                !.test_config_mech = lowered_mech,
                                !.test_config_qual = lowered_qual,
                                !.successful_reductions = @ + 1,
                                !.best_config =
                                    <<[mechanic |-> lowered_mech,
                                       quality |-> lowered_qual]>>,
                                !.best_total_workforce =
                                    SumOf(lowered_mech) + SumOf(lowered_qual),
                                !.best_max_lateness = lateness]
                       ELSE [counted EXCEPT
                                !.test_config_mech =
                                    IF mech_team # ""
                                    THEN RejectedReduction(lowered_mech,
                                                           mech_team)
                                    ELSE mech,
                                !.test_config_qual =
                                    IF mech_team = ""
                                    THEN RejectedReduction(lowered_qual,
                                                           qual_team)
                                    ELSE qual]
    /\ UNCHANGED <<tasks, scenario_result>>

ReductionEnd ==
    /\ pc = "phase2"
    /\ SearchFrame
    /\ search.strategy = "targeted"
    /\ ~SecondLoopGoesOn
    /\ pc' = "final"
    /\ UNCHANGED <<tasks, task_schedule, team_capacity, quality_team_capacity,
                   search, scenario_result>>

\* the run under the best configuration, outside any try, then the restore
TargetedResult ==
    /\ pc = "final"
    /\ SearchFrame
    /\ search.strategy = "targeted"
    /\ LET best == search.best_config[1]
           mechanic == Applied(team_capacity, best.mechanic)
           quality == Applied(quality_team_capacity, best.quality)
           schedule == ScheduleAfterRun(mechanic, quality)
       IN  /\ task_schedule' = schedule
           /\ IF workload.raises
              THEN /\ pc' = "raised"
                   /\ team_capacity' = mechanic
                   /\ quality_team_capacity' = quality
                   /\ UNCHANGED scenario_result
              ELSE /\ pc' = "returned"
                   /\ team_capacity' =
                          Restored(mechanic, original_team_capacity)
                   /\ quality_team_capacity' =
                          Restored(quality, original_quality_capacity)
                   /\ scenario_result' =
                          <<[config |-> best,
                             total_workforce |-> search.best_total_workforce,
                             makespan |-> calculate_makespan(schedule),
                             max_lateness |-> search.best_max_lateness,
                             target_achieved |->
                                 search.best_max_lateness
                                     <= search.target_lateness]>>
    /\ UNCHANGED <<tasks, search>>

TargetedNext ==
    \/ scenario_3_multidimensional_optimization
    \/ TargetTrial
    \/ TargetPhaseEnd
    \/ ReductionTrial
    \/ ReductionEnd
    \/ TargetedResult

\* --- scenarios.scenario_3_simulated_annealing
\* ProductionScheduler.calculate_minimum_team_requirements of the package:
\* only the teams of the capacity tables, an inspection counted for the
\* team of its own task
main_calculate_minimum_team_requirements ==
    [team \in DOMAIN team_capacity \cup DOMAIN quality_team_capacity |->
        LET by_task == {tasks[t].mechanics_required :
                           t \in {x \in all_tasks : tasks[x].team = team}}
            by_inspection ==
                {tasks[qi].mechanics_required :
                    qi \in {x \in DOMAIN quality_inspections \cap all_tasks :
                               tasks[x].team = team}}
        IN  SetMax({0} \cup by_task \cup by_inspection)]

\* min_requirements.get(team, default)
MinNeeded(team, default) ==
    IF team \in DOMAIN main_calculate_minimum_team_requirements
    THEN main_calculate_minimum_team_requirements[team]
    ELSE default

initialize_moderate_capacity ==
    [mechanic |-> [team \in DOMAIN original_team_capacity |->
                      Max2(MinNeeded(team, 2) + 2, 5)],
     quality |-> [team \in DOMAIN original_quality_capacity |->
                     Max2(MinNeeded(team, 1) + 1, 3)]]

\* Fault injection: the configuration is not written to the table.
apply_capacity_configuration_Skipped(table, config) ==
    table

apply_capacity_configuration(table, config) ==
    Applied(table, config)

\* config.get(team, 0) + n, entering the team if the configuration lacks it
Added(config, team, n) ==
    [x \in DOMAIN config \cup {team} |->
        IF x = team
        THEN (IF team \in DOMAIN config THEN config[team] ELSE 0) + n
        ELSE config[x]]

IsQualityName(team) == team \in {"Quality Team 1", "Quality Team 2"}

\* fix_unscheduled_tasks: one more for the team of every unscheduled task
fix_unscheduled_tasks(schedule, config) ==
    LET missing(team) ==
            Cardinality({t \in all_tasks \ DOMAIN schedule :
                            tasks[t].team = team})
        teams == {tasks[t].team : t \in all_tasks \ DOMAIN schedule} \ {""}
        mech_teams == {team \in teams : ~IsQualityName(team)}
        qual_teams == {team \in teams : IsQualityName(team)}
    IN  [mechanic |->
             [team \in DOMAIN config.mechanic \cup mech_teams |->
                 Added(config.mechanic, team, missing(team))[team]],
         quality |->
             [team \in DOMAIN config.quality \cup qual_teams |->
                 Added(config.quality, team, missing(team))[team]]]

\* random.sample(list(config['mechanic'].keys()), min(amount, len(...)))
Samples(config, amount) ==
    LET k == IF amount < Cardinality(DOMAIN config.mechanic)
             THEN amount ELSE Cardinality(DOMAIN config.mechanic)
    IN  {S \in SUBSET DOMAIN config.mechanic : Cardinality(S) = k}

reduce_random_teams(config, teams) ==
    [config EXCEPT !.mechanic =
        [team \in DOMAIN config.mechanic |->
            IF team \in teams /\ config.mechanic[team] > 2
            THEN config.mechanic[team] - 1 ELSE config.mechanic[team]]]

increase_random_teams(config, teams) ==
    [config EXCEPT !.mechanic = Raised(config.mechanic, teams, 1)]

\* fine_tune_workforce with the team random.choice drew among the teams
\* of low utilization, "" when there is none
fine_tune_workforce(config, team) ==
    IF IsQualityName(team) /\ team \in DOMAIN config.quality
           /\ config.quality[team] > 1
    THEN [config EXCEPT !.quality = Raised(config.quality, {team}, 0 - 1)]
    ELSE IF team \in DOMAIN config.mechanic /\ config.mechanic[team] > 2
    THEN [config EXCEPT !.mechanic = Raised(config.mechanic, {team}, 0 - 1)]
    ELSE config

increase_all_capacity(config, amount) ==
    [mechanic |-> Raised(config.mechanic, DOMAIN config.mechanic, amount),
     quality |-> Raised(config.quality, DOMAIN config.quality, amount)]

\* evaluate_delivery_performance on the schedule and tables of the object
evaluate_delivery_performance(schedule, mechanic, quality) ==
    LET values == {lateness_days(schedule, product) :
                      product \in DOMAIN days_to_delivery}
        known == {v \in values : v < Unscheduled}
    IN  [max_lateness |-> IF known = {} THEN Unscheduled ELSE SetMax(known),
         total_workforce |-> SumOf(mechanic) + SumOf(quality),
         scheduled_tasks |-> Cardinality(DOMAIN schedule),
         total_tasks |-> total_tasks]

Distance(metrics, target) ==
    IF metrics.max_lateness >= target THEN metrics.max_lateness - target
    ELSE target - metrics.max_lateness

Score(metrics, target) ==
    Distance(metrics, target) * Distance(metrics, target) * 1000
        + (metrics.total_tasks - metrics.scheduled_tasks) * 5000
        + (IF Distance(metrics, target) <= 2
           THEN metrics.total_workforce * 5 ELSE 0)

scenario_3_simulated_annealing ==
    /\ pc = "loaded"
    /\ SearchFrame
    /\ implementation = "scenarios"
    /\ \E target_earliness \in Targets, max_iterations \in 1..MaxAnnealing,
          utilization \in BOOLEAN :
          search' = [strategy |-> "annealing",
                     entry |-> Entry,
                     utilization |-> utilization,
                     target_earliness |-> target_earliness,
                     max_iterations |-> max_iterations,
                     current_config |-> initialize_moderate_capacity,
                     best_config |-> initialize_moderate_capacity,
                     best_score |-> Infinity,
                     best_metrics |-> <<>>,
                     iteration |-> 0,
                     stopped |-> FALSE]
    /\ pc' = "annealing"
    /\ UNCHANGED <<tasks, task_schedule, team_capacity, quality_team_capacity,
                   scenario_result>>

\* One pass of the loop; the draws of random are choices.  The pass ends in
\* the except branch when the run raises, and also when the object has no
\* calculate_initial_utilization for evaluate_delivery_performance to call
\* (search.utilization is FALSE for the ProductionScheduler classes of
\* main.py and BACKUP_scheduler.py, which define no such method).
AnnealingTrial ==
    /\ pc = "annealing"
    /\ SearchFrame
    /\ search.strategy = "annealing"
    /\ search.iteration < search.max_iterations
    /\ ~search.stopped
    /\ LET current == search.current_config
           mechanic == apply_capacity_configuration(team_capacity,
                                                    current.mechanic)
           quality == apply_capacity_configuration(quality_team_capacity,
                                                   current.quality)
           schedule == ScheduleAfterRun(mechanic, quality)
           metrics == evaluate_delivery_performance(schedule, mechanic,
                                                    quality)
           target == search.target_earliness
           distance == Distance(metrics, target)
           current_score == Score(metrics, target)
           counted == [search EXCEPT !.iteration = @ + 1]
           Neighbor(config) ==
               IF metrics.scheduled_tasks < metrics.total_tasks
               THEN {fix_unscheduled_tasks(schedule, config)}
               ELSE IF metrics.max_lateness < target
               THEN {reduce_random_teams(config, S) :
                        S \in Samples(config,
                                      IF distance < 5 THEN distance ELSE 5)}
               ELSE IF metrics.max_lateness > target
               THEN {increase_random_teams(config, S) :
                        S \in Samples(config,
                                      IF distance + 1 < 5 THEN distance + 1
                                      ELSE 5)}
               ELSE {fine_tune_workforce(config, team) :
                        team \in {""} \cup DOMAIN mechanic \cup DOMAIN quality}
       IN  /\ team_capacity' = mechanic
           /\ quality_team_capacity' = quality
           /\ task_schedule' = schedule
           /\ IF workload.raises \/ ~search.utilization
              THEN search' = [counted EXCEPT
                                 !.current_config =
                                     increase_all_capacity(current, 2)]
              ELSE IF current_score < search.best_score
              THEN IF distance = 0 /\ search.iteration > RefinementIterations
                   THEN search' = [counted EXCEPT
                                      !.best_score = current_score,
                                      !.best_config = current,
                                      !.best_metrics = <<metrics>>,
                                      !.stopped = TRUE]
                   ELSE \E next \in Neighbor(current) :
                            search' = [counted EXCEPT
                                          !.best_score = current_score,
                                          !.best_config = current,
                                          !.best_metrics = <<metrics>>,
                                          !.current_config = next]
              ELSE \E accept \in BOOLEAN :
                       /\ current_score = search.best_score => accept
                       /\ \E next \in Neighbor(IF accept THEN current
                                               ELSE search.best_config) :
                              search' = [counted EXCEPT
                                            !.current_config = next]
    /\ UNCHANGED <<tasks, pc, scenario_result>>

\* after the loop: the restore, then the best configuration or no solution
AnnealingResult ==
    /\ pc = "annealing"
    /\ SearchFrame
    /\ search.strategy = "annealing"
    /\ search.iteration >= search.max_iterations \/ search.stopped
    /\ team_capacity' = Restored(team_capacity, original_team_capacity)
    /\ quality_team_capacity' =
           Restored(quality_team_capacity, original_quality_capacity)
    /\ scenario_result' =
           IF /\ search.best_metrics # <<>>
              /\ search.best_metrics[1].scheduled_tasks
                     = search.best_metrics[1].total_tasks
           THEN <<[config |-> search.best_config,
                   total_workforce |-> search.best_metrics[1].total_workforce,
                   max_lateness |-> search.best_metrics[1].max_lateness]>>
           ELSE <<None>>
    /\ pc' = "returned"
    /\ UNCHANGED <<tasks, task_schedule, search>>

OptNext ==
    \/ scenario_2_minimize_makespan
    \/ MechanicTrial
    \/ QualityPhase
    \/ QualityTrial
    \/ GenerateOptimal
    \/ scenarios_scenario_2_minimize_makespan
    \/ UniformTrial
    \/ scenario_3_multidimensional_optimization
    \/ TargetTrial
    \/ TargetPhaseEnd
    \/ ReductionTrial
    \/ ReductionEnd
    \/ TargetedResult
    \/ scenario_3_simulated_annealing
    \/ AnnealingTrial
    \/ AnnealingResult

\* Objects handed to the searches: a task on each mechanic team and an
\* inspection, with or without a task whose team has no row in the
\* capacity tables; the tables as loaded, or set by the caller to another
\* uniform capacity (as the application does between two scenarios); the
\* span of the schedule not growing with capacity; runs that raise.
OptimizedTasks(required, extra) ==
    [t \in 1..(IF extra THEN 4 ELSE 3) |->
        IF t = 1
        THEN Task(15, "Mechanic Team 1", required, FALSE, "Production", "A")
        ELSE IF t = 2
        THEN Task(15, "Quality Team 1", 1, TRUE, "Quality Inspection", "A")
        ELSE IF t = 3
        THEN Task(15, "Mechanic Team 2", 1, FALSE, "Production", "A")
        ELSE Task(15, "Mechanic Team 3", 1, FALSE, "Production", "A")]

Shrinking ==
    {d \in [1..MaxCapacity -> 1..MaxDays] :
         \A c \in 1..(MaxCapacity - 1) : d[c] >= d[c + 1]}

OptWorkloads(required) ==
    {[need |-> [team \in {"Mechanic Team 1", "Mechanic Team 2",
                          "Mechanic Team 3", "Quality Team 1"} |->
                   IF team = "Mechanic Team 1" THEN k
                   ELSE IF team = "Mechanic Team 2" THEN k2 ELSE 1],
      days |-> d, raises |-> FALSE] :
         k \in required..(required + 1), k2 \in 1..2, d \in Shrinking}
        \cup {[need |-> [team \in {"Mechanic Team 1", "Mechanic Team 2",
                                   "Mechanic Team 3", "Quality Team 1"} |->
                            1],
               days |-> [c \in 1..MaxCapacity |-> 1], raises |-> TRUE]}

OptInit ==
    /\ \E required \in 1..MaxHeadcount, extra \in BOOLEAN :
          /\ tasks = OptimizedTasks(required, extra)
          /\ workload \in OptWorkloads(required)
    /\ quality_inspections = [x \in {2} |-> 1]
    /\ original_team_capacity = Caps(1)
    /\ original_quality_capacity = [team \in {"Quality Team 1"} |-> 1]
    /\ \E c \in 1..MaxHeadcount : team_capacity = Caps(c)
    /\ quality_team_capacity = original_quality_capacity
    /\ implementation \in {"BACKUP_scheduler", "scenarios"}
    /\ SchedulerLoaded

OptSpec == OptInit /\ [][OptNext]_vars

\* the targeted search alone on the same objects
TargetedSpec == OptInit /\ [][TargetedNext]_vars

\* --- Trials on one scheduler object.  A trial is the body of a search
\* loop: apply a configuration to the tables of the object, run the
\* scheduler, read the result off the object.  Two trials share the object;
\* in exclusive mode a trial begins only when the other is not between its
\* apply and its read.  ran_by and ran_under record which trial ran the
\* scheduler last and under which tables.
TrialFrame ==
    UNCHANGED <<dynamic_constraints, late_part_tasks, rework_tasks,
                quality_inspections, on_dock_dates, team_shifts,
                quality_team_shifts, holidays, days_to_delivery, silent_mode,
                constraints_cached, previous_run, implementation,
                product_order, precedence_constraints, late_part_constraints,
                rework_constraints, task_instance_map, quality_requirements,
                customer_requirements, returned, build_count,
                validation_results, original_team_capacity,
                original_quality_capacity, workload, ready_tasks,
                scheduled_count, iteration_count, failed_tasks,
                task_retry_counts, task_instance_id, priority, earliest_start,
                current_time, iterations, tasks, search, scenario_result>>

TrialConfigs ==
    {[mechanic |-> Uniform(original_team_capacity, c),
      quality |-> original_quality_capacity] : c \in 1..MaxCapacity}

BeginTrials ==
    /\ pc = "loaded"
    /\ TrialFrame
    /\ \E exclusive \in BOOLEAN, first \in TrialConfigs,
          second \in TrialConfigs :
          trials' = [exclusive |-> exclusive,
                     trial |-> [i \in 1..2 |->
                                   [step |-> "start",
                                    config |-> IF i = 1 THEN first ELSE second,
                                    recorded |-> <<>>]],
                     ran_by |-> 0,
                     ran_under |-> Entry]
    /\ pc' = "trials"
    /\ UNCHANGED <<task_schedule, team_capacity, quality_team_capacity>>

Busy(i) == trials.trial[i].step \in {"applied", "ran"}

\* apply_capacity_configuration(scheduler, current_config) and
\* scheduler.task_schedule = {}
ApplyCapacities ==
    /\ pc = "trials"
    /\ TrialFrame
    /\ \E i \in 1..2 :
          /\ trials.trial[i].step = "start"
          /\ trials.exclusive => ~Busy(3 - i)
          /\ team_capacity' =
                 apply_capacity_configuration(team_capacity,
                                              trials.trial[i].config.mechanic)
          /\ quality_team_capacity' =
                 apply_capacity_configuration(quality_team_capacity,
                                              trials.trial[i].config.quality)
          /\ trials' = [trials EXCEPT !.trial[i].step = "applied"]
    /\ task_schedule' = EmptySchedule
    /\ UNCHANGED pc

\* scheduler.generate_global_priority_list(...), under the tables as they
\* are when it runs
RunTrial ==
    /\ pc = "trials"
    /\ TrialFrame
    /\ \E i \in 1..2 :
          /\ trials.trial[i].step = "applied"
          /\ trials' = [trials EXCEPT !.trial[i].step = "ran",
                                      !.ran_by = i,
                                      !.ran_under = Entry]
    /\ task_schedule' = ScheduleAfterRun(team_capacity, quality_team_capacity)
    /\ UNCHANGED <<pc, team_capacity, quality_team_capacity>>

\* calculate_makespan() and calculate_lateness_metrics() on the object
ReadResult ==
    /\ pc = "trials"
    /\ TrialFrame
    /\ \E i \in 1..2 :
          /\ trials.trial[i].step = "ran"
          /\ trials' = [trials EXCEPT
                           !.trial[i].step = "done",
                           !.trial[i].recorded =
                               <<[makespan |-> calculate_makespan(task_schedule),
                                  max_lateness |-> max_lateness(task_schedule),
                                  ran_by |-> trials.ran_by,
                                  ran_under |-> trials.ran_under]>>]
    /\ UNCHANGED <<pc, task_schedule, team_capacity, quality_team_capacity>>

TrialNext ==
    \/ BeginTrials
    \/ ApplyCapacities
    \/ RunTrial
    \/ ReadResult

TrialWorkloads ==
    {[need |-> [team \in {"Mechanic Team 1", "Mechanic Team 2",
                          "Mechanic Team 3", "Quality Team 1"} |->
                   IF team = "Mechanic Team 2" THEN k2 ELSE 1],
      days |-> d, raises |-> FALSE] : k2 \in 1..2, d \in Shrinking}

TrialInit ==
    /\ tasks = OptimizedTasks(1, FALSE)
    /\ workload \in TrialWorkloads
    /\ quality_inspections = [x \in {2} |-> 1]
    /\ team_capacity = Caps(1)
    /\ quality_team_capacity = [team \in {"Quality Team 1"} |-> 1]
    /\ original_team_capacity = team_capacity
    /\ original_quality_capacity = quality_team_capacity
    /\ implementation \in {"BACKUP_scheduler", "scenarios"}
    /\ SchedulerLoaded

TrialSpec == TrialInit /\ [][TrialNext]_vars



\* ------------------------------------------------------ exact-solver path
\* ProductionScheduler.generate_global_priority_list of src/scheduler/main.py
\* hands the registry to CpSatScheduler.  The solver library is outside the
\* repository: the status it reports and the values it gives the start
\* variables are inputs of the call.
SolverStatuses ==
    {"OPTIMAL", "FEASIBLE", "INFEASIBLE", "MODEL_INVALID", "UNKNOWN"}

SolverStarts == {0, SolverLatest}

\* CpSatScheduler._extract_solution: an entry for every task of the
\* registry, from the values of its start and end variables (the end
\* variable of an interval is its start plus the duration).
extract_solution(value) ==
    [t \in all_tasks |->
        [start_time |-> StartDate + value[t],
         end_time |-> StartDate + value[t] + tasks[t].duration,
         team |-> tasks[t].team,
         product |-> tasks[t].product,
         duration |-> tasks[t].duration,
         mechanics_required |-> tasks[t].mechanics_required,
         is_quality |-> tasks[t].is_quality,
         task_type |-> tasks[t].task_type]]

\* CpSatScheduler.solve from the solver's status on: <<schedule>>, or <<>>
\* for None.
solve(status, value) ==
    IF status \in {"OPTIMAL", "FEASIBLE"}
    THEN <<extract_solution(value)>> ELSE <<>>

\* Fault injection: a failed solve leaves the schedule of the run before.
new_task_schedule_KeptOnFailure(new_schedule) ==
    IF new_schedule # <<>> /\ DOMAIN new_schedule[1] # {}
    THEN new_schedule[1] ELSE task_schedule

\* Lines 108-114: `if new_schedule:` takes the schedule, anything falsy
\* (None, or the empty dict of an empty registry) clears it.
new_task_schedule(new_schedule) ==
    IF new_schedule # <<>> /\ DOMAIN new_schedule[1] # {}
    THEN new_schedule[1] ELSE EmptySchedule

\* The conflict check and the slack and criticality figures of lines
\* 116-158 come from modules that are not part of the sources at hand; they
\* are consumers of the schedule and leave it as it is.
schedule_after_analysis(schedule) == schedule

\* One call of generate_global_priority_list, from the solve to the return.
generate_global_priority_list ==
    /\ pc \in {"loaded", "returned"}
    /\ Len(previous_run) < MaxCalls
    /\ \E status \in SolverStatuses, value \in [all_tasks -> SolverStarts] :
          LET new_schedule == solve(status, value)
          IN /\ task_schedule' =
                    schedule_after_analysis(new_task_schedule(new_schedule))
             /\ previous_run' =
                    Append(previous_run,
                           [schedule |-> task_schedule,
                            new_schedule |-> new_schedule,
                            ended |-> status])
    /\ pc' = "returned"
    /\ UNCHANGED <<tasks, optimizer, dynamic_constraints, late_part_tasks,
                   rework_tasks, quality_inspections, on_dock_dates,
                   team_capacity, quality_team_capacity, team_shifts,
                   quality_team_shifts, holidays, days_to_delivery,
                   silent_mode, constraints_cached, implementation,
                   product_order, precedence_constraints,
                   late_part_constraints, rework_constraints,
                   task_instance_map, quality_requirements,
                   customer_requirements, returned, build_count,
                   validation_results, ready_tasks, scheduled_count,
                   iteration_count, failed_tasks, task_retry_counts,
                   task_instance_id, priority, earliest_start, current_time,
                   iterations>>

\* Registries of no, one or two production tasks.
SolverRegistries ==
    {[t \in 1..n |-> Task(d, "Mechanic Team 1", 1, FALSE, "Production", "A")] :
        n \in 0..MaxRegistry, d \in {3, 5}}

SolverInit ==
    /\ tasks \in SolverRegistries
    /\ implementation = "main"
    /\ team_capacity = Caps(1)
    /\ quality_team_capacity = [team \in {"Quality Team 1"} |-> 1]
    /\ quality_inspections = NoMap
    /\ SchedulerLoaded
    /\ OptimizerIdle

SolverSpec == SolverInit /\ [][generate_global_priority_list]_vars

\* ---------------------------------------------------------------- claims
AllEdges == {<<c.First, c.Second>> : c \in Range(dynamic_constraints)}

Predecessors(t) == {e[1] : e \in {x \in AllEdges : x[2] = t}}

FinishPredecessors(t) ==
    {c.First : c \in {x \in Range(dynamic_constraints) :
                         /\ x.Second = t
                         /\ x.Relationship \in {"Finish <= Start",
                                                "Finish = Start",
                                                "Finish <= Finish"}}}

\* C1: after every placement and at the end of a run, for every team and
\* every minute, the headcounts of the team's entries that run at that
\* minute (start <= minute < end) sum to at most the team's capacity.
\* Minutes outside every entry have headcount 0.
C1_CapacityNeverExceeded ==
    \A t \in Scheduled :
        \A minute \in task_schedule[t].start_time
                          ..(task_schedule[t].end_time - 1) :
            UsageAt(task_schedule, task_schedule[t].team, minute)
                <= CapacityOf(task_schedule[t].team)

\* Two tasks of one team that together exceed its capacity were placed one
\* right after the other.
C1_TwoTasksSerialised ==
    \E a \in Scheduled, b \in Scheduled :
        /\ a # b
        /\ task_schedule[a].team = task_schedule[b].team
        /\ task_schedule[a].duration > 0
        /\ task_schedule[b].duration > 0
        /\ task_schedule[a].mechanics_required
               + task_schedule[b].mechanics_required
               > CapacityOf(task_schedule[a].team)
        /\ task_schedule[b].start_time = task_schedule[a].end_time

RelationHolds(c) ==
    LET a == task_schedule[c.First]
        b == task_schedule[c.Second]
        kind == c.Relationship
    IN IF kind = "Finish <= Start" THEN a.end_time <= b.start_time
       ELSE IF kind = "Finish = Start" THEN a.end_time = b.start_time
       ELSE IF kind = "Finish <= Finish" THEN a.end_time <= b.end_time
       ELSE IF kind = "Start <= Start" THEN a.start_time <= b.start_time
       ELSE IF kind = "Start = Start" THEN a.start_time = b.start_time
       ELSE IF kind = "Start <= Finish" THEN a.start_time <= b.end_time
       ELSE TRUE

\* C2: at the end of a run, every constraint (A, B, kind) whose two
\* endpoints are both scheduled has the relation of its kind between the
\* two entries (times are whole minutes, so within one minute is equality
\* of minutes).
C2_ConstraintsHoldAtEnd ==
    pc = "done" =>
        \A c \in Range(dynamic_constraints) :
            (c.First \in Scheduled /\ c.Second \in Scheduled)
                => RelationHolds(c)

\* C3: a late part with an on-dock date D never starts before 06:00 of the
\* day of D + late_part_delay_days, whatever constraints point at it.
C3_LatePartNotBeforeFloor ==
    \A t \in Scheduled \cap late_part_tasks :
        t \in DOMAIN on_dock_dates =>
            task_schedule[t].start_time
                >= ((on_dock_dates[t] + LatePartDelayDays * 1440) \div 1440)
                       * 1440 + 360

InWindow(shift, minute) ==
    \/ shift = "1st" /\ 360 <= minute /\ minute < 870
    \/ shift = "2nd" /\ 870 <= minute /\ minute < 1380
    \/ shift = "3rd" /\ (1380 <= minute \/ minute < 360)

C5_EndIsStartPlusDuration ==
    \A t \in Scheduled :
        task_schedule[t].end_time
            = task_schedule[t].start_time + tasks[t].duration

\* A task that takes time was placed later than the start of the horizon.
C5_PlacedAfterHorizonStart ==
    \E t \in Scheduled :
        /\ tasks[t].duration > 0
        /\ task_schedule[t].start_time > StartDate

\* C6: a task in the ready queue has no incoming Finish-class constraint
\* or has every predecessor scheduled; and whenever a task gets its
\* schedule entry, each of its Finish-class predecessors already has one.
C6_ReadyOnlyWhenUnblocked ==
    /\ [](\A t \in InHeap(ready_tasks) :
             FinishPredecessors(t) = {} \/ Predecessors(t) \subseteq Scheduled)
    /\ [][\A t \in (DOMAIN task_schedule') \ Scheduled :
             FinishPredecessors(t) \subseteq Scheduled]_vars

\* A task with a Finish-class predecessor waits in the ready queue.
C6_BlockedTaskReleased ==
    /\ pc = "loop"
    /\ \E t \in InHeap(ready_tasks) : FinishPredecessors(t) # {}

\* A task that reaches the allocator, takes time and needs more heads than
\* its team has finds no slot: the allocator raises on every attempt.
AlwaysRaises(t) ==
    /\ ~(tasks[t].is_quality /\ ResolveTeam(t) = "")
    /\ tasks[t].duration > 0
    /\ tasks[t].mechanics_required > CapacityOf(tasks[t].team)

DependsOnFailing(t) ==
    \E a \in all_tasks :
        /\ AlwaysRaises(a)
        /\ t \in ReachableIn(AllEdges, {a}, Cardinality(AllEdges))

\* C7: a task whose allocation raises on every attempt is attempted at most
\* 3 times, each retry queued with the priority raised by 0.1; after the
\* third attempt it is marked failed, and it never gets an entry.  The run
\* does not abort: when it ends, every task that does not depend on such a
\* task is scheduled (constraint graph acyclic, every inspection's team
\* resolvable).
C7_FailingTaskSkipped ==
    /\ \A t \in all_tasks :
          AlwaysRaises(t) =>
              /\ task_retry_counts[t] <= 3
              /\ t \notin Scheduled
              /\ (task_retry_counts[t] = 3 /\ pc \in {"loop", "done"})
                     => t \in failed_tasks
              /\ \A e \in ready_tasks :
                     e[2] = t =>
                         /\ task_retry_counts[t] < 3
                         /\ e[1] = calculate_task_priority(t)
                                       + task_retry_counts[t]
    /\ ((\E t \in all_tasks : AlwaysRaises(t)) /\ ~HasCycle(AllEdges))
           => pc \notin {"crashed", "aborted"}
    /\ (/\ pc = "done"
        /\ ~HasCycle(AllEdges)
        /\ \A t \in all_tasks : tasks[t].is_quality => ResolveTeam(t) # "")
           => \A t \in all_tasks : ~DependsOnFailing(t) => t \in Scheduled

\* A run ended with a partial schedule: one task failed after three
\* attempts, a task that depends on it was left out, another was scheduled.
C7_PartialScheduleAtEnd ==
    /\ pc = "done"
    /\ Scheduled # {}
    /\ \E f \in failed_tasks :
          /\ AlwaysRaises(f)
          /\ task_retry_counts[f] = 3
          /\ \E u \in all_tasks \ (Scheduled \cup {f}) : DependsOnFailing(u)

\* C8: the allocator makes at most 5000 iterations, and a request whose
\* headcount exceeds the capacity of its team never gets a slot (so no
\* entry ever needs more heads than its team has).
C8_OverHeadcountNeverPlaced ==
    /\ iterations <= 5000
    /\ \A t \in Scheduled :
          task_schedule[t].mechanics_required
              <= CapacityOf(task_schedule[t].team)

\* C9: when the main loop has stopped, the ready queue is empty.
C9_QueueEmptyWhenLoopStops ==
    pc = "done" => ready_tasks = {}

\* C10: a task placed while a Start = Start predecessor of it is already
\* scheduled starts exactly at that predecessor's start.
C10_PinnedToPredecessorStart ==
    [][\A c \in Range(dynamic_constraints) :
          (/\ c.Relationship = "Start = Start"
           /\ c.First \in Scheduled
           /\ c.Second \notin Scheduled
           /\ c.Second \in DOMAIN task_schedule')
              => task_schedule'[c.Second].start_time
                     = task_schedule[c.First].start_time]_vars

ClassRank(t) ==
    IF t \in late_part_tasks THEN 0
    ELSE IF t \in DOMAIN quality_inspections THEN 1
    ELSE IF t \in rework_tasks THEN 2
    ELSE 3

\* C11: whenever the main loop is about to pop, the task at the head of the
\* ready queue is of the most urgent class queued (late part, then
\* inspection, then rework, then production).
C11_MostUrgentClassFirst ==
    (pc = "loop" /\ ready_tasks # {}) =>
        \A f \in ready_tasks :
            ClassRank(HeapMin(ready_tasks)[2]) <= ClassRank(f[2])

\* C19: calculate_critical_path_length never recurses without bound, also
\* when a constraint cycle (of any kind) is reachable from the task; and a
\* task from which no cycle is reachable gets its duration plus the largest
\* critical-path length among its successors.
C19_CriticalPathTerminates ==
    \A t \in all_tasks :
        /\ ~calculate_critical_path_length(t).raised
        /\ calculate_critical_path_length(t).length
               = tasks[t].duration
                 + SetMax({calculate_critical_path_length(u).length :
                              u \in Successors(t)} \cup {0})

FinishEdges ==
    {<<c.First, c.Second>> :
        c \in {x \in Range(dynamic_constraints) :
                  x.Relationship \in {"Finish <= Start", "Finish = Start",
                                      "Finish <= Finish"}}}

\* C20: a run on a graph with a cycle among Finish-class edges is aborted
\* before the main loop, in silent mode too, and leaves no schedule entry.
C20_FinishCycleAborts ==
    HasCycle(FinishEdges) =>
        /\ pc \in {"start", "aborted"}
        /\ Scheduled = {}

\* C12: a run repeated on the same tasks, constraints, calendar and
\* capacities ends with the same schedule (start, end, team and shift of
\* every task) as the run before, whenever it is executed.
C12_SameInputsSameSchedule ==
    (/\ pc = "done"
     /\ previous_run # <<>>
     /\ previous_run[1].ended = "done"
     /\ previous_run[1].team_capacity = team_capacity)
        => task_schedule = previous_run[1].schedule

\* C17: when a new run is about to start after an earlier run or a capacity
\* change, the constraint cache has been invalidated; the step that starts
\* the run leaves no entry of the earlier run in the schedule.
C17_CachesInvalidatedScheduleReplaced ==
    /\ [](pc = "start" /\ previous_run # <<>> => ~constraints_cached)
    /\ [][pc = "start" /\ pc' # "start"
             => task_schedule' = [t \in {} |-> 0]]_vars

\* the list a call has just constructed
Built == Range(dynamic_constraints')

Building == build_count' = build_count + 1

HasLink(list, first, second, relationship) ==
    \E c \in list :
        /\ c.First = first
        /\ c.Second = second
        /\ c.Relationship = relationship

\* C13: the list the builder constructs holds, for every inspection
\* registered for a primary task in quality_requirements or
\* customer_requirements, a Finish = Start constraint from the primary task
\* to the inspection, with or without a static relationship that starts at
\* the primary task.
C13_EveryInspectionPaired ==
    [][Building =>
          \A req \in Range(quality_requirements) \cup Range(customer_requirements) :
              HasLink(Built, req[1], req[2], "Finish = Start")]_vars

\* C14: for every static relationship (first, second, kind) of the six
\* kinds and every product in which both endpoints resolve, the list the
\* builder constructs holds first -> QI (Finish = Start), QI -> CC
\* (Finish = Start), CC -> second (kind) when first has both inspections,
\* first -> inspection (Finish = Start), inspection -> second (kind) when
\* it has one, first -> second (kind) when it has none, and no direct
\* first -> second constraint when an inspection is spliced in.
C14_ChainSplicedForEveryKind ==
    [][Building =>
          \A r \in Range(precedence_constraints) :
          \A j \in 1..Len(product_order) :
              LET first == Get(task_instance_map, <<product_order[j], r.First>>)
                  second == Get(task_instance_map, <<product_order[j], r.Second>>)
                  kind == strip(r.Relationship_Type)
                  has_qi == first \in Keys(quality_requirements)
                  has_cc == first \in Keys(customer_requirements)
                  qi == Lookup(quality_requirements, first)
                  cc == Lookup(customer_requirements, first)
              IN  (/\ r.Relationship_Type \in {Str("", k, "") : k \in Kinds}
                   /\ first # ""
                   /\ second # "")
                  => IF has_qi /\ has_cc
                     THEN /\ HasLink(Built, first, qi, "Finish = Start")
                          /\ HasLink(Built, qi, cc, "Finish = Start")
                          /\ HasLink(Built, cc, second, kind)
                          /\ ~\E c \in Built : c.First = first /\ c.Second = second
                     ELSE IF has_qi
                     THEN /\ HasLink(Built, first, qi, "Finish = Start")
                          /\ HasLink(Built, qi, second, kind)
                          /\ ~\E c \in Built : c.First = first /\ c.Second = second
                     ELSE IF has_cc
                     THEN /\ HasLink(Built, first, cc, "Finish = Start")
                          /\ HasLink(Built, cc, second, kind)
                          /\ ~\E c \in Built : c.First = first /\ c.Second = second
                     ELSE HasLink(Built, first, second, kind)]_vars

\* some relationship of the registries has an endpoint that resolves to no
\* registered task instance for a product
HasUnresolvedEndpoint ==
    \/ \E r \in Range(precedence_constraints) :
       \E j \in 1..Len(product_order) :
           \/ Get(task_instance_map, <<product_order[j], r.First>>) = ""
           \/ Get(task_instance_map, <<product_order[j], r.Second>>) = ""
    \/ \E c \in Range(late_part_constraints) : LatePartLinks(c) = <<>>
    \/ \E c \in Range(rework_constraints) : ReworkLinks(c) = <<>>

\* C15: when a baseline, late part or rework relationship has an endpoint
\* that resolves to no registered task instance for a product, a call of
\* the builder ends without an error, and every endpoint of every constraint
\* of the built list is a key of the task registry.
C15_UnresolvedSkippedWithoutError ==
    /\ HasUnresolvedEndpoint => pc # "raised"
    /\ constraints_cached =>
           \A c \in Range(dynamic_constraints) :
               c.First \in DOMAIN tasks /\ c.Second \in DOMAIN tasks

\* C16: a call of the builder that follows a call that returned, with no
\* invalidation in between, returns the very list object the call before
\* returned and constructs no list, whatever was changed in the registries
\* between the two calls.
C16_SecondCallReturnsCachedList ==
    [][(pc = "built" /\ Len(returned') = Len(returned) + 1) =>
          /\ returned'[Len(returned')] = returned[Len(returned)]
          /\ build_count' = build_count]_vars

\* C16 witness: two calls have returned the one list constructed, and the
\* registries as they are now would give another list.
C16_CachedListAfterRegistryChange ==
    /\ pc = "built"
    /\ Len(returned) = 2
    /\ build_count = 1
    /\ returned[1] = returned[2]
    /\ implementation = "BACKUP_scheduler"
    /\ ~BuildList.raised
    /\ BuildList.constraints # returned[2].constraints

\* the relationship values the registries hold, which the builder hands to
\* the normalizer
RelationshipValues ==
    {RelationshipOf(c) : c \in Range(precedence_constraints)}
        \cup {c.Relationship : c \in Range(late_part_constraints)}
        \cup {c.Relationship : c \in Range(rework_constraints)}

\* C18: the normalizer raises on no input and returns one of the six
\* canonical kinds for every input, Finish <= Start for an empty or an
\* unrecognized string.
C18_NormalizerReturnsCanonicalKind ==
    \A value \in RelationshipValues :
        LET result == normalize_relationship_type(value)
        IN  /\ ~result.raised
            /\ result.value \in Kinds
            /\ (/\ value.type = "str"
                /\ strip(value) \notin (DOMAIN mappings) \cup Kinds)
                   => result.value = "Finish <= Start"

\* the quality team that the number in the name of the primary task's team
\* names, "" when the inspection has no registered primary task or no
\* quality team has that number
NamedQualityTeam(t) ==
    IF t \in DOMAIN quality_inspections /\ quality_inspections[t] \in all_tasks
    THEN LET number == TeamNumber(tasks[quality_inspections[t]].team)
             named == IF number = 1 THEN "Quality Team 1"
                      ELSE IF number = 2 THEN "Quality Team 2" ELSE ""
         IN  IF named \in DOMAIN quality_team_capacity THEN named ELSE ""
    ELSE ""

Teamless(t) == tasks[t].is_quality /\ tasks[t].team = ""

\* C21: an inspection that reaches the scheduler without a team is given the
\* quality team its primary task's team number names, when there is one,
\* and is scheduled on it; an inspection without a team and without such a
\* quality team is never scheduled, the run does not end with an exception,
\* and it goes on to schedule the other ready tasks.
C21_TeamlessInspectionRecoveredOrSkipped ==
    /\ [](\A t \in all_tasks :
            /\ (Teamless(t) /\ NamedQualityTeam(t) = "") =>
                   /\ t \notin Scheduled
                   /\ pc # "crashed"
                   /\ pc = "done" =>
                          \A u \in all_tasks \ {t} :
                              t \notin Predecessors(u) => u \in Scheduled
            /\ (tasks[t].is_quality /\ t \in Scheduled) =>
                   /\ task_schedule[t].team # ""
                   /\ task_schedule[t].team = tasks[t].team
            /\ (/\ pc = "done"
                /\ tasks[t].is_quality
                /\ NamedQualityTeam(t) # ""
                /\ Predecessors(t) \subseteq Scheduled) => t \in Scheduled)
    /\ [][\A t \in all_tasks :
             (Teamless(t) /\ pc = "loop" /\ pc' = "alloc"
                  /\ task_instance_id' = t) =>
                 /\ NamedQualityTeam(t) # ""
                 /\ tasks'[t].team = NamedQualityTeam(t)]_vars

\* C21 witnesses: a run ended with a recovered inspection scheduled on the
\* quality team of its primary task's number ...
C21_RecoveredInspectionScheduled ==
    /\ pc = "done"
    /\ \E t \in DOMAIN quality_inspections :
          /\ t \in Scheduled
          /\ task_retry_counts[t] = 0
          /\ task_schedule[t].team = NamedQualityTeam(t)
          /\ 3 \in all_tasks
          /\ tasks[3].team = "Mechanic Team 1"
          /\ tasks[quality_inspections[t]].team = "Mechanic Team 1"
          /\ tasks[quality_inspections[t]].duration = 3
          /\ holidays["A"] = {}
          /\ Cardinality(Scheduled) = 3

\* ... and a run ended without the inspection, which was tried three times,
\* and with the production task behind it scheduled.
C21_UnrecoverableInspectionSkipped ==
    /\ pc = "done"
    /\ \E t \in all_tasks :
          /\ Teamless(t)
          /\ NamedQualityTeam(t) = ""
          /\ task_retry_counts[t] = 3
          /\ t \notin Scheduled
          /\ Scheduled = all_tasks \ {t}

\* ---------------------------------------------------------------------
\* The report of a finished validation.
Validated == pc = "validated"

Report == validation_results[1]

\* check_constraint_satisfied's reading of the six kinds, on the entries of
\* the two endpoints and with the validator's tolerance: the relation of
\* the constraint fails by more than one minute.
RelationFails(constraint) ==
    LET first == task_schedule[constraint.First]
        second == task_schedule[constraint.Second]
        After(a, b) == a > b + ToleranceMinutes
        Apart(a, b) == After(a, b) \/ After(b, a)
    IN  CASE constraint.Relationship = "Finish <= Start" ->
                 After(first.end_time, second.start_time)
          [] constraint.Relationship = "Finish = Start" ->
                 Apart(first.end_time, second.start_time)
          [] constraint.Relationship = "Finish <= Finish" ->
                 After(first.end_time, second.end_time)
          [] constraint.Relationship = "Start <= Start" ->
                 After(first.start_time, second.start_time)
          [] constraint.Relationship = "Start = Start" ->
                 Apart(first.start_time, second.start_time)
          [] constraint.Relationship = "Start <= Finish" ->
                 After(first.start_time, second.end_time)

FailingConstraints ==
    {i \in 1..Len(dynamic_constraints) :
         /\ dynamic_constraints[i].First \in Scheduled
         /\ dynamic_constraints[i].Second \in Scheduled
         /\ RelationFails(dynamic_constraints[i])}

\* C22: the validator reports a precedence violation and is_valid = false
\* whenever some constraint of the dependency list, of any of the six
\* kinds, has both endpoints scheduled and its relation fails by more than
\* one minute, and it reports none when all such relations hold.
C22_PrecedenceViolationOfAnyKindReported ==
    Validated =>
        /\ FailingConstraints # {} =>
               Report.precedence_violations # {} /\ ~Report.is_valid
        /\ FailingConstraints = {} => Report.precedence_violations = {}

\* The entries of a team that are active at an instant.
ActiveAt(team, instant) ==
    {task_id \in Scheduled :
         /\ task_schedule[task_id].team = team
         /\ task_schedule[task_id].start_time <= instant
         /\ instant < task_schedule[task_id].end_time}

\* The instants of the 15-minute sampling of the schedule.
SampledInstants == UNION {SamplePoints(task_schedule[x]) : x \in Scheduled}

Overloaded ==
    \E task_id \in Scheduled, instant \in SampledInstants :
        SumMechanics(ActiveAt(task_schedule[task_id].team, instant))
            > CapacityOf(task_schedule[task_id].team)

\* C23: the validator reports a capacity violation and is_valid = false
\* whenever, at some instant of the 15-minute sampling of the schedule, the
\* summed headcount of the entries of one team that are active at that
\* instant exceeds the team's capacity, whatever the offset between the
\* start times of the overlapping entries.
C23_OverloadReportedAtAnyOffset ==
    Validated /\ Overloaded =>
        Report.resource_violations # {} /\ ~Report.is_valid

\* C24: validate_schedule_comprehensive leaves the schedule, the task
\* registry and the team capacities unchanged, and is_valid is false
\* exactly when at least one error (incomplete, capacity, precedence,
\* late-part, resource requirement) was recorded.
C24_ValidatorOnlyReports ==
    /\ [](Validated => (~Report.is_valid <=> Len(Report.errors) > 0))
    /\ [][pc = "scheduled" /\ pc' = "validated" =>
              /\ task_schedule' = task_schedule
              /\ tasks' = tasks
              /\ team_capacity' = team_capacity
              /\ quality_team_capacity' = quality_team_capacity]_vars

\* C24 witness: a validation whose only recorded error is a late part
\* started before its floor, on a schedule it left with both entries.
C24_InvalidForLatePartOnly ==
    /\ Validated
    /\ Report.errors = <<"LATE PARTS">>
    /\ ~Report.is_valid
    /\ Scheduled = {1, 2}

\* ---------------------------------------------------------------------
\* The uniform search has returned from a call with bounds [lo, hi] on a
\* workload whose inspection team never is the bottleneck.
UniformReturned ==
    /\ pc = "returned"
    /\ search.strategy = "uniform"
    /\ workload.need["Quality Team 1"] = 1

Threshold == workload.need["Mechanic Team 1"]

\* the workload of the claim: feasible exactly from the threshold on, with
\* one makespan for every capacity from the threshold on
ConstantFromThreshold ==
    /\ Threshold \in search.bounds[1]..search.bounds[2]
    /\ \A c \in Threshold..MaxCapacity :
          workload.days[c] = workload.days[Clamp(Threshold)]

\* C25: for a workload where a run schedules every task exactly when the
\* uniform mechanic capacity is at least a threshold k inside the search
\* bounds [lo, hi], and the makespan is the same for every capacity >= k,
\* the uniform binary search returns optimal_mechanics = k (bounds [1,10]
\* and k = 4 give 4).
C25_SearchReturnsThreshold ==
    UniformReturned /\ ConstantFromThreshold =>
        /\ scenario_result # <<None>>
        /\ scenario_result[1].optimal_mechanics = Threshold

\* the makespan a complete run has under a uniform mechanic capacity
MakespanAt(c) ==
    calculate_makespan(
        RunSchedule(Uniform(original_team_capacity, c),
                    Uniform(original_quality_capacity, MaxQuality)))

\* capacities of the bounds that schedule every task with a makespan no
\* worse than that of any larger capacity of the bounds
NoWorseThanLarger ==
    {c \in search.bounds[1]..search.bounds[2] :
         /\ c >= Threshold
         /\ \A larger \in (c + 1)..search.bounds[2] :
                MakespanAt(c) <= MakespanAt(larger)}

\* C26: the capacity returned by the uniform minimization is the smallest
\* value in the search bounds that schedules every task instance and has a
\* makespan no worse than the makespan obtained with any larger value in
\* the bounds, for every makespan-versus-capacity profile in which
\* feasibility is monotone in capacity.
C26_SmallestCapacityNoWorseThanLarger ==
    /\ UniformReturned
    /\ implementation = "BACKUP_scheduler"
    /\ NoWorseThanLarger # {}
    => scenario_result[1].optimal_mechanics = SetMin(NoWorseThanLarger)

\* an optimization call has returned to its caller
OptimizationReturned == pc = "returned" /\ search # <<>>

\* C27: after any optimization strategy (uniform minimization, targeted
\* search, simulated annealing) returns, with a result or with no solution,
\* the mechanic and quality capacity tables are exactly what they were
\* before the call: same team keys, same value per team.
C27_TablesAsBeforeTheCall ==
    OptimizationReturned =>
        /\ team_capacity = search.entry.mechanic
        /\ quality_team_capacity = search.entry.quality

Trial(i) == trials.trial[i]

\* the tables hold the configuration of trial i
Holds(tables, i) ==
    /\ \A team \in DOMAIN Trial(i).config.mechanic :
           /\ team \in DOMAIN tables.mechanic
           /\ tables.mechanic[team] = Trial(i).config.mechanic[team]
    /\ \A team \in DOMAIN Trial(i).config.quality :
           /\ team \in DOMAIN tables.quality
           /\ tables.quality[team] = Trial(i).config.quality[team]

\* what a run under the configuration of trial i gives
OwnMakespan(i) ==
    calculate_makespan(RunSchedule(Trial(i).config.mechanic,
                                   Trial(i).config.quality))

OwnLateness(i) ==
    max_lateness(RunSchedule(Trial(i).config.mechanic,
                             Trial(i).config.quality))

\* C28: with at most one trial at a time on a scheduler object, every
\* makespan and lateness a trial records was computed by its own run under
\* the capacities the same trial applied.  (Interleaved trials reach
\* C28_RecordsOtherTrialsResult.)
C28_ExclusiveTrialsRecordOwnResult ==
    pc = "trials" /\ trials.exclusive =>
        \A i \in 1..2 :
            Trial(i).step = "done" =>
                /\ Trial(i).recorded[1].ran_by = i
                /\ Holds(Trial(i).recorded[1].ran_under, i)
                /\ Trial(i).recorded[1].makespan = OwnMakespan(i)
                /\ Trial(i).recorded[1].max_lateness = OwnLateness(i)

\* two interleaved trials: one has recorded the makespan of the schedule
\* the other trial ran under the other trial's capacities, and it is not
\* the makespan of its own configuration
C28_RecordsOtherTrialsResult ==
    /\ pc = "trials"
    /\ ~trials.exclusive
    /\ \E i \in 1..2 :
          /\ Trial(i).step = "done"
          /\ Trial(i).recorded[1].ran_by = 3 - i
          /\ ~Holds(Trial(i).recorded[1].ran_under, i)
          /\ Holds(Trial(i).recorded[1].ran_under, 3 - i)
          /\ Trial(i).recorded[1].makespan # OwnMakespan(i)

\* the targeted search is in or past its second phase
InSecondPhase ==
    /\ search # <<>>
    /\ search.strategy = "targeted"
    /\ pc \in {"phase2", "final"}

\* the schedule a run under the best configuration produces
BestRun ==
    RunSchedule(Applied(team_capacity, search.best_config[1].mechanic),
                Applied(quality_team_capacity, search.best_config[1].quality))

AtOrAboveMinimum(config) ==
    \A team \in DOMAIN config : config[team] >= Minimum(team)

\* the teams whose value differs between two configurations
Changed(before, after) ==
    {team \in DOMAIN before \cup DOMAIN after :
        \/ team \notin DOMAIN before
        \/ team \notin DOMAIN after
        \/ before[team] # after[team]}

\* a pass of the second loop that lowered a team and ran the scheduler
ReductionStep ==
    /\ pc = "phase2"
    /\ pc' = "phase2"
    /\ search.strategy = "targeted"
    /\ search'.reduction_attempts = search.reduction_attempts + 1

AcceptedStep ==
    LET old == search.best_config[1]
        new == search'.best_config[1]
        mech == Changed(old.mechanic, new.mechanic)
        qual == Changed(old.quality, new.quality)
    IN  /\ Cardinality(mech) + Cardinality(qual) = 1
        /\ \A team \in mech : new.mechanic[team] = old.mechanic[team] - 1
        /\ \A team \in qual : new.quality[team] = old.quality[team] - 1
        /\ search'.best_total_workforce = search.best_total_workforce - 1
        /\ search'.best_total_workforce
               = SumOf(new.mechanic) + SumOf(new.quality)
        /\ search'.test_config_mech = new.mechanic
        /\ search'.test_config_qual = new.quality

RejectedStep ==
    /\ search'.test_config_mech = search.test_config_mech
    /\ search'.test_config_qual = search.test_config_qual
    /\ search'.best_config = search.best_config
    /\ search'.best_total_workforce = search.best_total_workforce

\* C29: in the second phase of the targeted search every configuration
\* kept as best schedules all task instances with maximum lateness <=
\* target; an accepted step lowers exactly one team by one unit (total
\* workforce decreases by 1), a rejected step restores that team, and no
\* team is ever lowered below its minimum requirement.
C29_SecondPhaseShrinksSafely ==
    /\ [](InSecondPhase =>
            /\ search.best_config # <<>>
            /\ Cardinality(DOMAIN BestRun) = total_tasks
            /\ max_lateness(BestRun) <= search.target_lateness
            /\ search.best_max_lateness = max_lateness(BestRun)
            /\ AtOrAboveMinimum(search.best_config[1].mechanic)
            /\ AtOrAboveMinimum(search.best_config[1].quality)
            /\ AtOrAboveMinimum(search.test_config_mech)
            /\ AtOrAboveMinimum(search.test_config_qual)
            /\ AtOrAboveMinimum(team_capacity)
            /\ AtOrAboveMinimum(quality_team_capacity))
    /\ [][ReductionStep =>
            IF search'.successful_reductions = search.successful_reductions + 1
            THEN AcceptedStep
            ELSE RejectedStep]_vars

\* a reduction was accepted and a later one rejected: the configuration
\* under test is the best one again while the tables of the object still
\* hold the rejected capacities
C29_AcceptedThenRejected ==
    /\ pc = "phase2"
    /\ search # <<>>
    /\ search.strategy = "targeted"
    /\ search.successful_reductions >= 1
    /\ search.reduction_attempts > search.successful_reductions
    /\ search.test_config_mech = search.best_config[1].mechanic
    /\ search.test_config_qual = search.best_config[1].quality
    /\ SumOf(team_capacity) + SumOf(quality_team_capacity)
           = search.best_total_workforce - 1

\* no trial of the search met its goal: no run of the uniform minimization
\* scheduled every task, the targeted search kept no configuration, the
\* annealing kept no complete evaluation
NoTrialMetGoal ==
    IF search.strategy = "uniform"
    THEN search.best_makespan >= Unscheduled
    ELSE IF search.strategy = "targeted"
    THEN search.best_config = <<>>
    ELSE \/ search.best_metrics = <<>>
         \/ search.best_metrics[1].scheduled_tasks
                < search.best_metrics[1].total_tasks

CapacitiesRestored ==
    /\ \A team \in DOMAIN original_team_capacity :
           /\ team \in DOMAIN team_capacity
           /\ team_capacity[team] = original_team_capacity[team]
    /\ \A team \in DOMAIN original_quality_capacity :
           /\ team \in DOMAIN quality_team_capacity
           /\ quality_team_capacity[team] = original_quality_capacity[team]

\* C30: an optimization search that uses up its iteration budget without
\* any trial meeting its goal returns the no-solution value and restores
\* the capacities; and in no case does an exception raised by a scheduling
\* run escape the optimization call to its caller.
C30_NoSolutionValueAndNoEscape ==
    /\ pc # "raised"
    /\ OptimizationReturned /\ NoTrialMetGoal =>
           /\ scenario_result = <<None>>
           /\ CapacitiesRestored

\* a search loop is about to make a trial
TrialPending ==
    /\ search # <<>>
    /\ \/ /\ pc = "phase1"
          /\ search.strategy = "uniform"
          /\ search.mech_low <= search.mech_high
       \/ /\ pc = "phase2"
          /\ search.strategy = "uniform"
          /\ search.qual_low <= search.qual_high
       \/ pc = "search"
       \/ /\ pc = "phase1"
          /\ search.strategy = "targeted"
          /\ search.iteration < search.max_iterations \div 2
          /\ ~search.achieved_target
       \/ /\ pc = "phase2"
          /\ search.strategy = "targeted"
          /\ SecondLoopGoesOn
       \/ /\ pc = "annealing"
          /\ search.iteration < search.max_iterations
          /\ ~search.stopped

\* the capacities the pending trial writes into the tables
TrialCapacity ==
    IF search.strategy = "uniform" /\ pc = "phase1"
    THEN [mechanic |-> Uniform(team_capacity,
                               (search.mech_low + search.mech_high) \div 2),
          quality |-> Uniform(quality_team_capacity, search.max_quality)]
    ELSE IF search.strategy = "uniform" /\ pc = "phase2"
    THEN [mechanic |-> team_capacity,
          quality |-> Uniform(quality_team_capacity,
                              (search.qual_low + search.qual_high) \div 2)]
    ELSE IF search.strategy = "uniform"
    THEN [mechanic |-> Uniform(team_capacity,
                               (search.mech_low + search.mech_high) \div 2),
          quality |-> Uniform(quality_team_capacity,
                              (search.qual_low + search.qual_high) \div 2)]
    ELSE IF search.strategy = "targeted" /\ pc = "phase1"
    THEN [mechanic |-> search.current_mech_config,
          quality |-> search.current_qual_config]
    ELSE IF search.strategy = "targeted"
    THEN [mechanic |-> search.test_config_mech,
          quality |-> search.test_config_qual]
    ELSE search.current_config

LargerSomewhere(before, after) ==
    \/ \E team \in DOMAIN before.mechanic \cap DOMAIN after.mechanic :
           after.mechanic[team] > before.mechanic[team]
    \/ \E team \in DOMAIN before.quality \cap DOMAIN after.quality :
           after.quality[team] > before.quality[team]

\* C31: inside every optimization loop, when the scheduling run of a trial
\* raises, the exception is caught, the search goes on, and the next trial
\* is made with a strictly larger capacity for at least one team.
C31_RaisingTrialRetriedWithMoreCapacity ==
    [][TrialPending /\ workload.raises =>
          /\ pc' # "raised"
          /\ TrialPending' => LargerSomewhere(TrialCapacity, TrialCapacity')]_vars

Positive(n) == IF n > 0 THEN n ELSE 0

\* a natural number that bounds the steps an optimization call has left
StepsLeft ==
    IF pc \in {"returned", "raised"} THEN 0
    ELSE IF search.strategy = "uniform" /\ pc = "phase1"
    THEN Positive(search.mech_high - search.mech_low + 1)
             + Positive(search.max_quality - search.min_quality + 1) + 3
    ELSE IF search.strategy = "uniform" /\ pc = "phase2"
    THEN Positive(search.qual_high - search.qual_low + 1) + 1
    ELSE IF search.strategy = "uniform"
    THEN Positive(search.mech_high - search.mech_low + 1)
    ELSE IF search.strategy = "targeted" /\ pc = "phase1"
    THEN search.max_iterations - search.iteration + 3
    ELSE IF search.strategy = "targeted" /\ pc = "phase2"
    THEN search.max_iterations - search.iteration + 2
    ELSE IF search.strategy = "targeted"
    THEN 1
    ELSE search.max_iterations - search.iteration + 1

\* a trial of a uniform search is made
UniformTrialStep ==
    /\ TrialPending
    /\ search.strategy = "uniform"

IntervalShrinks ==
    IF pc = "phase1"
    THEN /\ search'.mech_low >= search.mech_low
         /\ search'.mech_high <= search.mech_high
         /\ search'.mech_high - search'.mech_low
                < search.mech_high - search.mech_low
    ELSE IF pc = "phase2"
    THEN /\ search'.qual_low >= search.qual_low
         /\ search'.qual_high <= search.qual_high
         /\ search'.qual_high - search'.qual_low
                < search.qual_high - search.qual_low
    ELSE /\ search'.mech_high - search'.mech_low
                < search.mech_high - search.mech_low
         /\ search'.qual_high - search'.qual_low
                < search.qual_high - search.qual_low

\* a scheduling run of the targeted search: the schedule is replaced
TargetedRun ==
    /\ search # <<>>
    /\ search.strategy = "targeted"
    /\ pc \in {"phase1", "phase2"}
    /\ pc' \in {"phase1", "phase2"}
    /\ search' # search
    /\ pc' = pc

\* C32: every optimization call terminates: each step of a call lowers a
\* natural-number bound on the steps left; the uniform binary search
\* strictly shrinks its interval [low, high] on every trial (success,
\* incomplete schedule or exception); the targeted search makes at most
\* max_iterations scheduling trials over its two phases, the second phase
\* at most 50.
C32_EveryCallTerminates ==
    /\ [](search # <<>> =>
             /\ StepsLeft >= 0
             /\ search.strategy = "targeted" =>
                    /\ search.iteration <= search.max_iterations
                    /\ search.reduction_attempts <= MaxReductions
                    /\ search.reduction_attempts <= search.iteration)
    /\ [][search # <<>> => StepsLeft' < StepsLeft]_vars
    /\ [][UniformTrialStep => IntervalShrinks]_vars
    /\ [][TargetedRun => search'.iteration = search.iteration + 1]_vars

\* a targeted search that used its whole budget in both loops has returned
C32_BudgetUsedUpAndReturned ==
    /\ pc = "returned"
    /\ search # <<>>
    /\ search.strategy = "targeted"
    /\ search.iteration = search.max_iterations
    /\ search.reduction_attempts >= 1
    /\ search.max_iterations = MaxIterations

\* Every team a task is assigned to has a shift and at least as many heads
\* as the task asks for.
TeamsStaffed ==
    \A t \in all_tasks :
        tasks[t].team # "" =>
            /\ ShiftsOf(tasks[t].team, tasks[t].is_quality) # <<>>
            /\ CapacityOf(tasks[t].team) >= tasks[t].mechanics_required

\* C33: for one product whose baseline tasks form a linear Finish <= Start
\* chain with one inspected task, on teams that each have a shift and a
\* capacity of at least the largest headcount asked of them, the greedy run
\* ends with every task and the inspection scheduled, and at no minute does
\* a team work over its capacity.
C33_ChainFullyScheduled ==
    (pc = "done" /\ TeamsStaffed) =>
        /\ Scheduled = all_tasks
        /\ \A t \in Scheduled :
               \A minute \in task_schedule[t].start_time
                                 ..(task_schedule[t].end_time - 1) :
                   UsageAt(task_schedule, task_schedule[t].team, minute)
                       <= CapacityOf(task_schedule[t].team)

\* C34: the start the allocator returns is not before the requested
\* earliest instant, and no earlier minute from that instant on is on a
\* working day of the product, inside a shift of the team and with the
\* headcount free for the task's duration: the walk skips no feasible
\* minute when it jumps over a day off or to the next shift boundary.
C34_AllocatorReturnsEarliestFeasible ==
    [][(/\ pc = "alloc"
        /\ task_instance_id \notin Scheduled
        /\ task_instance_id \in DOMAIN task_schedule') =>
           LET start == task_schedule'[task_instance_id].start_time
           IN /\ start >= earliest_start
              /\ \A t \in earliest_start..(start - 1) : ~Feasible(t)]_vars

\* The positions, in the constraint list, of the Start = Start constraints
\* into the task whose predecessor is scheduled.
ScheduledPins(task) ==
    {i \in 1..Len(dynamic_constraints) :
        /\ dynamic_constraints[i].Second = task
        /\ dynamic_constraints[i].Relationship = "Start = Start"
        /\ dynamic_constraints[i].First \in Scheduled}

\* C35: when a task with a scheduled Start = Start predecessor is handed to
\* the allocator, the earliest start handed over is the start of the last
\* such predecessor in constraint-list order, whatever the bounds of its
\* other predecessors, its late-part floor and the start of the horizon.
C35_LastPinOverridesOtherBounds ==
    [][(pc = "loop" /\ pc' = "alloc"
           /\ ScheduledPins(task_instance_id') # {}) =>
          earliest_start' =
              task_schedule[dynamic_constraints[
                  SetMax(ScheduledPins(task_instance_id'))].First].start_time
      ]_vars

\* A task with two incoming constraints was placed, from the start of its
\* Start = Start predecessor, before its Finish <= Start predecessor ended.
C35_PlacedBeforePredecessorEnds ==
    \E t \in Scheduled :
        /\ ScheduledPins(t) # {}
        /\ Cardinality({i \in 1..Len(dynamic_constraints) :
                           dynamic_constraints[i].Second = t}) > 1
        /\ \E c \in Range(dynamic_constraints) :
               /\ c.Second = t
               /\ c.Relationship = "Finish <= Start"
               /\ c.First \in Scheduled
               /\ task_schedule[t].start_time
                      < task_schedule[c.First].end_time

\* C36: within one run no task is placed twice: the ready queue never holds
\* a task twice, a task that has a schedule entry is never popped again,
\* and scheduled_count is always the number of schedule entries.
C36_NoTaskPlacedTwice ==
    /\ [](/\ \A e \in ready_tasks, f \in ready_tasks :
                (e[2] = f[2]) => (e = f)
           /\ scheduled_count = Cardinality(Scheduled))
    /\ [][pc = "loop" =>
             \A e \in ready_tasks \ ready_tasks' : e[2] \notin Scheduled]_vars

\* C37: when a run has ended, every task without a schedule entry has
\* failed its allocation the maximum number of times or has a predecessor
\* that has no entry either: no task whose predecessors are all scheduled
\* is left behind without having been attempted.
C37_NoReadyTaskLeftBehind ==
    pc = "done" =>
        \A t \in all_tasks \ Scheduled :
            \/ task_retry_counts[t] >= MaxRetries
            \/ \E p \in Predecessors(t) : p \notin Scheduled

\* C38: after generate_global_priority_list has returned, the schedule is
\* all or nothing: with a solver status of optimal or feasible it holds
\* exactly the entries extracted in this call, one for every task of the
\* registry; with any other status it is empty.  It never holds a part of
\* the registry's tasks or an entry of an earlier call.
C38_ScheduleAllOrNothing ==
    (pc = "returned" /\ previous_run # <<>>) =>
        LET call == previous_run[Len(previous_run)]
        IN /\ Scheduled \in {all_tasks, {}}
           /\ IF call.ended \in {"OPTIMAL", "FEASIBLE"}
              THEN /\ Scheduled = all_tasks
                   /\ \A t \in all_tasks :
                          task_schedule[t] = call.new_schedule[1][t]
              ELSE Scheduled = {}

\* A call that found no solution returned after a call that had filled the
\* schedule.
C38_FailedCallAfterFilledSchedule ==
    /\ pc = "returned"
    /\ Len(previous_run) = MaxCalls
    /\ previous_run[MaxCalls].schedule # EmptySchedule
    /\ previous_run[MaxCalls].ended = "INFEASIBLE"
    /\ Scheduled = {}

\* the teams of the configuration under test that are above their minimum
AboveMinimum ==
    {team \in DOMAIN search.test_config_mech :
        search.test_config_mech[team] > Minimum(team)}
    \cup {team \in DOMAIN search.test_config_qual :
              search.test_config_qual[team] > Minimum(team)}

\* the teams that the tables hold one unit below the configuration under
\* test: the team of the trial being run, or of the trial just rejected
LoweredIn(mechanic, quality) ==
    {team \in DOMAIN search.test_config_mech :
        mechanic[team] = search.test_config_mech[team] - 1}
    \cup {team \in DOMAIN search.test_config_qual :
              quality[team] = search.test_config_qual[team] - 1}

JustRejected ==
    IF search.reduction_attempts > 0
    THEN LoweredIn(team_capacity, quality_team_capacity) ELSE {}

\* lowering the team by one unit leaves a task unscheduled or pushes the
\* maximum lateness above the target
ReductionFails(config, team) ==
    LET mechanic == Applied(team_capacity,
                            IF team \in DOMAIN config.mechanic
                            THEN Raised(config.mechanic, {team}, 0 - 1)
                            ELSE config.mechanic)
        quality == Applied(quality_team_capacity,
                           IF team \in DOMAIN config.mechanic
                           THEN config.quality
                           ELSE Raised(config.quality, {team}, 0 - 1))
        schedule == ScheduleAfterRun(mechanic, quality)
    IN  \/ Cardinality(DOMAIN schedule) < total_tasks
        \/ max_lateness(schedule) > search.target_lateness

\* C39: when the second phase of the targeted search has stopped with
\* attempts left, the configuration it returns is locally minimal: lowering
\* any one team that is above its minimum by one unit would leave a task
\* unscheduled or push the maximum lateness above the target; and the
\* trial that follows a rejected reduction lowers another team, when
\* another team is above its minimum.
C39_SecondPhaseEndsLocallyMinimal ==
    /\ []((/\ search # <<>>
           /\ search.strategy = "targeted"
           /\ pc = "final"
           /\ search.achieved_target
           /\ search.best_config # <<>>
           /\ search.reduction_attempts < MaxReductions) =>
              LET best == search.best_config[1]
              IN  \A team \in DOMAIN best.mechanic \cup DOMAIN best.quality :
                      (IF team \in DOMAIN best.mechanic
                       THEN best.mechanic[team] ELSE best.quality[team])
                          > Minimum(team)
                      => ReductionFails(best, team))
    /\ [][(/\ ReductionStep
           /\ JustRejected # {}
           /\ AboveMinimum \ JustRejected # {}) =>
              LoweredIn(team_capacity', quality_team_capacity')
                  \cap JustRejected = {}]_vars
====
